---- MODULE Spec2Model ----
(***************************************************************************)
(* Model of the tinbox translation orchestration engine:                   *)
(*   src/src/tinbox/core/translation/algorithms.py                         *)
(*   src/src/tinbox/core/translation/checkpoint.py                         *)
(*   src/src/tinbox/core/translation/interface.py                          *)
(*   src/src/tinbox/api/jobs.py                                            *)
(*                                                                         *)
(* Text is a sequence of one-character strings.  Optional[T] is a set     *)
(* with at most one element ({} is None).  A Python dict is the sequence   *)
(* of its items in insertion order.  Wall-clock time is not modelled:      *)
(* every time_taken the orchestrator computes is 0.                        *)
(***************************************************************************)
EXTENDS Integers, Sequences, FiniteSets, TLC

\* ---------------------------------------------------------------- bounds
MaxPages == 3
MaxFreq == 2
MaxRuns == 2

\* ------------------------------------------------------------ text tools
Letters == <<"a", "b", "c", "d", "e", "f">>

NL == "\n"

\* "\n\n", the blank-line separator of both algorithms
BlankLine == <<NL, NL>>

Min2(a, b) == IF a <= b THEN a ELSE b

\* Python slice text[lo:hi] for 0 <= lo, 0-based, hi exclusive, clamped
Slice(text, lo, hi) ==
    LET h == Min2(hi, Len(text))
    IN  IF lo >= h THEN <<>> ELSE [k \in 1..(h - lo) |-> text[lo + k]]

RECURSIVE str_join(_, _)
\* sep.join(parts)
str_join(sep, parts) ==
    IF parts = <<>> THEN <<>>
    ELSE IF Len(parts) = 1 THEN parts[1]
         ELSE parts[1] \o sep \o str_join(sep, Tail(parts))

\* the document: unit j (1-based) is the one-letter text Letters[j]
UnitText(j) == <<Letters[((j - 1) % Len(Letters)) + 1]>>

DocumentOf(n) == [j \in 1..n |-> UnitText(j)]

\* a bytes object (an image page) is its data behind the tag "bytes", which
\* is no character
ImageUnit(j) == <<"bytes">> \o UnitText(j)

\* isinstance(page, bytes)
isinstance_bytes(page) == page # <<>> /\ page[1] = "bytes"

\* a document of image pages
ImageDocumentOf(n) == [j \in 1..n |-> ImageUnit(j)]

\* ------------------------------------------------------- the translator
\* The Translator collaborator is external.  Its text is modelled as the
\* upper-casing of the request content (distinct contents give distinct
\* translations); each response uses Len(content) tokens and costs twice that.
UpperChar(c) ==
    CASE c = "a" -> "A" [] c = "b" -> "B" [] c = "c" -> "C"
      [] c = "d" -> "D" [] c = "e" -> "E" [] c = "f" -> "F"
      [] OTHER -> c

TranslatorText(content) ==
    LET data == IF isinstance_bytes(content) THEN Tail(content) ELSE content
    IN  [k \in 1..Len(data) |-> UpperChar(data[k])]

TranslatorResponse(content) ==
    [text |-> TranslatorText(content),
     tokens_used |-> Len(content),
     cost |-> 2 * Len(content)]

\* ------------------------------------------------------------ dict keys
IntKey(n) == [kind |-> "int", n |-> n]
StrKey(n) == [kind |-> "str", n |-> n]

\* {i + 1: text for i, text in enumerate(texts)}
EnumerateDict(texts) ==
    [k \in 1..Len(texts) |-> [key |-> IntKey(k), value |-> texts[k]]]

\* list(d.values())
DictValues(d) == [k \in 1..Len(d) |-> d[k].value]

\* list(range(1, n + 1))
Range1(n) == [k \in 1..n |-> k]

\* ------------------------------------------------------------ windowing
\* create_windows raises ValueError (checked only after the empty-text return)
create_windows_raises(text, window_size, overlap_size) ==
    /\ text # <<>>
    /\ \/ window_size <= 0
       \/ overlap_size < 0
       \/ overlap_size >= window_size

RECURSIVE windows_from_Step1(_, _, _, _)
\* mutant: the cursor moves by one character whatever the sizes
windows_from_Step1(text, window_size, overlap_size, start) ==
    IF ~(start < Len(text)) THEN <<>>
    ELSE LET end == Min2(start + window_size, Len(text))
             window == Slice(text, start, end)
             next == start + 1
         IN  IF end = Len(text) THEN <<window>>
             ELSE <<window>> \o windows_from_Step1(text, window_size, overlap_size, next)

RECURSIVE windows_from(_, _, _, _)
\* the while loop of create_windows, entered with the cursor at start
windows_from(text, window_size, overlap_size, start) ==
    IF ~(start < Len(text)) THEN <<>>
    ELSE LET end == Min2(start + window_size, Len(text))
             window == Slice(text, start, end)
             next == end - Min2(overlap_size, end - start)
         IN  IF end = Len(text) THEN <<window>>
             ELSE IF next <= 0 \/ next >= end THEN <<window>>
                  ELSE <<window>> \o windows_from(text, window_size, overlap_size, next)

create_windows(text, window_size, overlap_size) ==
    IF text = <<>> THEN <<>> ELSE windows_from(text, window_size, overlap_size, 0)

\* the overlap lengths of range(min(len(result), len(chunk), overlap_size), 0, -1)
\* at which the end of result equals the start of the chunk
OverlapLens(result, chunk, overlap_size) ==
    {k \in 1..Min2(Min2(Len(result), Len(chunk)), overlap_size) :
        Slice(result, Len(result) - k, Len(result)) = Slice(chunk, 0, k)}

\* mutant: the shortest matching overlap is taken
SetMax_Least(S) == CHOOSE m \in S : \A x \in S : m <= x

SetMax(S) == CHOOSE m \in S : \A x \in S : x <= m

\* mutant: the chunk is appended whole whether or not an overlap was found
merge_step_NoTrim(result, chunk, overlap_size) ==
    result \o BlankLine \o chunk

\* one iteration of the for loop of merge_chunks
merge_step(result, chunk, overlap_size) ==
    LET lens == OverlapLens(result, chunk, overlap_size)
    IN  IF lens # {}
        THEN result \o BlankLine \o Slice(chunk, SetMax(lens), Len(chunk))
        ELSE result \o BlankLine \o chunk

RECURSIVE merge_from(_, _, _)
merge_from(result, rest, overlap_size) ==
    IF rest = <<>> THEN result
    ELSE merge_from(merge_step(result, Head(rest), overlap_size), Tail(rest), overlap_size)

\* mutant: the result starts empty and every chunk is appended to it
merge_chunks_FromEmpty(chunks, overlap_size) ==
    merge_from(<<>>, chunks, overlap_size)

merge_chunks(chunks, overlap_size) ==
    IF chunks = <<>> THEN <<>>
    ELSE IF Len(chunks) = 1 THEN chunks[1]
    ELSE IF overlap_size = 0 THEN str_join(<<>>, chunks)
    ELSE merge_from(chunks[1], Tail(chunks), overlap_size)

\* ---------------------------------------------------------- seam repair
SetMin(S) == CHOOSE m \in S : \A x \in S : m <= x

\* str.find: the lowest 0-based index at which sub occurs in text, or -1
find(text, sub) ==
    LET P == {p \in 0..(Len(text) - Len(sub)) : Slice(text, p, p + Len(sub)) = sub}
    IN  IF P = {} THEN -1 ELSE SetMin(P)

\* text[-n:] for n > 0: the last n characters, the whole text when shorter
last_chars(text, n) ==
    Slice(text, IF n >= Len(text) THEN 0 ELSE Len(text) - n, Len(text))

\* mutant: the end of the first text is returned instead of the slice of the
\* second
extract_seam_End1(text1, text2, overlap_size) ==
    IF text1 = <<>> \/ text2 = <<>> \/ overlap_size <= 0 THEN <<>>
    ELSE LET end1 == last_chars(text1, overlap_size)
         IN  IF find(text2, end1) >= 0 THEN end1 ELSE <<>>

extract_seam(text1, text2, overlap_size) ==
    IF text1 = <<>> \/ text2 = <<>> \/ overlap_size <= 0 THEN <<>>
    ELSE LET end1 == last_chars(text1, overlap_size)
             start_pos == find(text2, end1)
         IN  IF end1 = <<>> THEN <<>>
             ELSE IF start_pos >= 0
                  THEN Slice(text2, start_pos, start_pos + overlap_size)
                  ELSE <<>>

update_page_with_seam(page, seam) ==
    IF seam = <<>> THEN page
    ELSE LET pos == find(page, seam)
         IN  IF pos >= 0 THEN Slice(page, pos + Len(seam), Len(page)) ELSE page

RECURSIVE repair_from_PrevOriginal(_, _, _, _)
\* mutant: the seam is taken against the previous page as it was given
repair_from_PrevOriginal(result, page_list, k, overlap_size) ==
    IF k > Len(page_list) THEN result
    ELSE LET seam == extract_seam(page_list[k - 1], page_list[k], overlap_size)
             page == IF seam # <<>> THEN update_page_with_seam(page_list[k], seam)
                     ELSE page_list[k]
         IN  repair_from_PrevOriginal(Append(result, page), page_list, k + 1, overlap_size)

RECURSIVE repair_from(_, _, _, _)
\* the for loop of repair_seams from page k (1-based) on; result[-1] is the
\* previous page as repaired
repair_from(result, page_list, k, overlap_size) ==
    IF k > Len(page_list) THEN result
    ELSE LET seam == extract_seam(result[Len(result)], page_list[k], overlap_size)
             page == IF seam # <<>> THEN update_page_with_seam(page_list[k], seam)
                     ELSE page_list[k]
         IN  repair_from(Append(result, page), page_list, k + 1, overlap_size)

\* repair_seams(pages, config, translator) with config.page_seam_overlap
repair_seams(page_list, page_seam_overlap) ==
    IF Len(page_list) <= 1
    THEN IF page_list # <<>> THEN page_list[1] ELSE <<>>
    ELSE str_join(BlankLine, repair_from(<<page_list[1]>>, page_list, 2, page_seam_overlap))

\* ----------------------------------------------------------- checkpoints
\* the four fields CheckpointManager records and compares
ConfigFingerprint(cfg) ==
    [source_lang |-> cfg.source_lang,
     target_lang |-> cfg.target_lang,
     model |-> cfg.model,
     algorithm |-> cfg.algorithm]

TranslationState(source_lang, target_lang, algorithm, completed_pages, failed_pages, translated_chunks, token_usage, cost, time_taken) ==
    [source_lang |-> source_lang,
     target_lang |-> target_lang,
     algorithm |-> algorithm,
     completed_pages |-> completed_pages,
     failed_pages |-> failed_pages,
     translated_chunks |-> translated_chunks,
     token_usage |-> token_usage,
     cost |-> cost,
     time_taken |-> time_taken]

\* json.dump writes every dict key as a string; json.load returns what was
\* written, so the keys of translated_chunks come back as strings
json_key(key) == StrKey(key.n)

json_dict(d) == [k \in 1..Len(d) |-> [key |-> json_key(d[k].key), value |-> d[k].value]]

\* the document json.dump(checkpoint_data) leaves in the file
checkpoint_data(cfg, state) ==
    [source_lang |-> state.source_lang,
     target_lang |-> state.target_lang,
     algorithm |-> state.algorithm,
     completed_pages |-> state.completed_pages,
     failed_pages |-> state.failed_pages,
     translated_chunks |-> json_dict(state.translated_chunks),
     token_usage |-> state.token_usage,
     cost |-> state.cost,
     time_taken |-> state.time_taken,
     config |-> ConfigFingerprint(cfg)]

\* _get_checkpoint_path raises ValueError without a checkpoint directory
get_checkpoint_path_raises(cfg) == ~cfg.checkpoint_dir

\* CheckpointManager.save raises: no directory, or the I/O fails (io_ok = FALSE)
save_raises(cfg, io_ok) == get_checkpoint_path_raises(cfg) \/ ~io_ok

\* CheckpointManager.save: the canonical file afterwards (file is Optional)
save(cfg, state, file, io_ok) ==
    IF save_raises(cfg, io_ok) THEN file ELSE {checkpoint_data(cfg, state)}

\* save_checkpoint(config, pages, tokens_used, cost) raises only what save raises
save_checkpoint_raises(cfg, io_ok) == cfg.checkpoint_dir /\ save_raises(cfg, io_ok)

\* save_checkpoint(config, pages, tokens_used, cost): the canonical file
\* afterwards.  Without a checkpoint directory it returns at once; otherwise it
\* saves a state built from the config and the totals, with no completed or
\* failed pages and no chunks: the pages handed in are not used
save_checkpoint(cfg, page_list, tokens_used, cost, file, io_ok) ==
    IF ~cfg.checkpoint_dir THEN file
    ELSE save(cfg,
              TranslationState(cfg.source_lang, cfg.target_lang, cfg.algorithm,
                               <<>>, <<>>, <<>>, tokens_used, cost, 0),
              file, io_ok)

\* mutant: the check forgets target_lang
config_mismatch_NoTarget(cfg, data) ==
    \/ data.config.source_lang # cfg.source_lang
    \/ data.config.model # cfg.model
    \/ data.config.algorithm # cfg.algorithm

\* the config check of load
config_mismatch(cfg, data) ==
    \/ data.config.source_lang # cfg.source_lang
    \/ data.config.target_lang # cfg.target_lang
    \/ data.config.model # cfg.model
    \/ data.config.algorithm # cfg.algorithm

\* CheckpointManager.load: Optional[TranslationState]; never raises
load(cfg, file) ==
    IF get_checkpoint_path_raises(cfg) THEN {}
    ELSE IF file = {} THEN {}
    ELSE LET data == CHOOSE d \in file : TRUE
         IN  IF config_mismatch(cfg, data) THEN {}
             ELSE {TranslationState(data.source_lang, data.target_lang,
                                    data.algorithm, data.completed_pages,
                                    data.failed_pages, data.translated_chunks,
                                    data.token_usage, data.cost, data.time_taken)}

\* ------------------------------------------------------ checkpoint paths
InputStem == "doc"

\* checkpoint_dir / f"{input_file.stem}_checkpoint.json"
get_checkpoint_path(stem) == [stem |-> <<stem, "_checkpoint">>, suffix |-> ".json"]

\* Path.with_suffix
with_suffix(path, suffix) == [path EXCEPT !.suffix = suffix]

\* mutant: the document is written straight to the canonical path
temp_path_InPlace(path) == path

\* temp_path = checkpoint_path.with_suffix(".tmp")
temp_path(path) == with_suffix(path, ".tmp")

CheckpointPath == get_checkpoint_path(InputStem)

Paths == {CheckpointPath, temp_path(CheckpointPath)}

NoFiles == [p \in Paths |-> {}]

\* json.dump writes the document in pieces; a file holds the first `written`
JsonPieces == 3

FileContent(data, written) == [data |-> data, written |-> written]

Complete(content) == content.written = JsonPieces

\* ------------------------------------------------------------ run state
VARIABLES
    pages,               \* content.pages of the input document
    disk,                \* Optional: the checkpoint file of the input document
    runs,                \* translate_document calls made so far
    config,              \* TranslationConfig of the current call
    checkpoint_manager,  \* "None" or "CheckpointManager" (built on config)
    pc,                  \* position of the current call
    i,                   \* loop index (0-based, as in the code)
    translated_pages,
    failed_pages,
    total_tokens,
    total_cost,
    windows,
    overlap_size,
    translated_windows,
    loaded,              \* <<r>> once checkpoint_manager.load() has returned r
    calls,               \* units (1-based) submitted to the translator, in order
    translator_failed,   \* units on which the translator raised
    ok_units,            \* units the translator translated, in order
    save_failed,         \* units after whose translation the save raised
    last_save,           \* Optional: the latest save of this call, with the run so far
    outcome,             \* how the call ended
    fs,                  \* files of the checkpoint directory, by path (step-wise save)
    saving,              \* Optional: the document a save in progress is writing
    prev,                \* Optional: the document of the last completed save
    observed,            \* <<c>> once a concurrent load has read content c
    cancelled,           \* the task of the current call was cancelled
    save_calls,          \* units after whose translation save was called
    fn,                  \* the function last applied on its own
    args,                \* its arguments
    result,              \* what it returned or raised
    jobs,                \* JobQueue.jobs: job id (1-based) -> Job
    tasks,               \* the execute_job task of each job
    semaphore,           \* free slots of JobQueue.semaphore
    progress_callbacks,  \* JobQueue._progress_callbacks: job id -> callbacks
    callback_log,        \* the calls of registered callbacks, in order
    translation_progress,  \* Optional: a TranslationProgress object
    updates              \* the update calls made on it, in order

locals == <<i, translated_pages, failed_pages, total_tokens, total_cost,
            windows, overlap_size, translated_windows>>

ghosts == <<calls, translator_failed, ok_units, save_failed, cancelled, save_calls>>

files == <<fs, saving, prev, observed>>

pure == <<fn, args, result>>

queue == <<jobs, tasks, semaphore, progress_callbacks, callback_log>>

tracker == <<translation_progress, updates>>

vars == <<pages, disk, runs, config, checkpoint_manager, pc, locals, loaded,
          ghosts, last_save, outcome, files, pure, queue, tracker>>

Configs ==
    [algorithm : {"page", "sliding-window", "other"},
     source_lang : {"en"},
     target_lang : {"de"},
     model : {"openai"},
     resume_from_checkpoint : BOOLEAN,
     checkpoint_dir : BOOLEAN,
     checkpoint_frequency : 1..MaxFreq,
     window_size : {{}, {3}},
     overlap_size : {{}, {1}}]

Only(S) == CHOOSE x \in S : TRUE

\* The calls made: a config and a checkpoint manager.  Fields the call never
\* reads are left at one value: only the sliding-window algorithm reads the
\* window fields, without a manager no algorithm reads the checkpoint fields,
\* and an unknown algorithm name reads nothing.
Calls ==
    {c \in Configs \X {"None", "CheckpointManager"} :
        /\ c[1].algorithm # "sliding-window" =>
              (c[1].window_size = {} /\ c[1].overlap_size = {})
        /\ c[1].algorithm = "other" => c[2] = "None"
        /\ c[2] = "None" => /\ ~c[1].resume_from_checkpoint
                            /\ ~c[1].checkpoint_dir
                            /\ c[1].checkpoint_frequency = 1}

\* no function has been applied on its own
NoCall ==
    /\ fn = "none"
    /\ args = <<>>
    /\ result = <<>>

MaxConcurrent == 2

\* JobQueue(max_concurrent=2) before any job is created
NoQueue ==
    /\ jobs = <<>>
    /\ tasks = <<>>
    /\ semaphore = MaxConcurrent
    /\ progress_callbacks = <<>>
    /\ callback_log = <<>>

\* no TranslationProgress object has been constructed
NoTracker ==
    /\ translation_progress = {}
    /\ updates = <<>>

Pending ==
    [kind |-> "pending", text |-> <<>>, tokens_used |-> 0, cost |-> 0,
     failed_pages |-> <<>>, warnings |-> <<>>, cause |-> "none",
     message_pages |-> <<>>]

\* TranslationResponse(text=, tokens_used=, cost=, time_taken=): failed_pages,
\* page_errors and warnings keep their defaults
Response(text, tokens_used, cost) ==
    [Pending EXCEPT !.kind = "response", !.text = text,
                    !.tokens_used = tokens_used, !.cost = cost]

\* an exception leaving the call; message_pages is the failed-page list the
\* message prints
Raised(kind, cause, message_pages) ==
    [Pending EXCEPT !.kind = kind, !.cause = cause,
                    !.message_pages = message_pages]

Init ==
    /\ pages \in {DocumentOf(n) : n \in 0..MaxPages}
                \cup {ImageDocumentOf(n) : n \in 1..MaxPages}
    /\ disk = {}
    /\ runs = 0
    /\ config = CHOOSE c \in Configs : TRUE
    /\ checkpoint_manager = "None"
    /\ pc = "idle"
    /\ i = 0
    /\ translated_pages = <<>>
    /\ failed_pages = <<>>
    /\ total_tokens = 0
    /\ total_cost = 0
    /\ windows = <<>>
    /\ overlap_size = 0
    /\ translated_windows = <<>>
    /\ loaded = <<>>
    /\ calls = <<>>
    /\ translator_failed = {}
    /\ ok_units = <<>>
    /\ save_failed = {}
    /\ last_save = {}
    /\ outcome = Pending
    /\ fs = NoFiles
    /\ saving = {}
    /\ prev = {}
    /\ observed = <<>>
    /\ cancelled = FALSE
    /\ save_calls = {}
    /\ NoCall
    /\ NoQueue
    /\ NoTracker

\* translate_document(content, config, translator, checkpoint_manager=cm):
\* a fresh call and its dispatch; an unknown algorithm name raises at once
translate_document ==
    /\ pc \in {"idle", "done"}
    /\ UNCHANGED <<files, pure, queue, tracker>>
    /\ runs < MaxRuns
    /\ \E c \in Calls :
          /\ config' = c[1]
          /\ checkpoint_manager' = c[2]
          /\ pc' = CASE c[1].algorithm = "page" -> "page_begin"
                     [] c[1].algorithm = "sliding-window" -> "sw_begin"
                     [] OTHER -> "done"
          /\ outcome' = IF c[1].algorithm \in {"page", "sliding-window"} THEN Pending
                        ELSE Raised("TranslationError", "none", <<>>)
    /\ runs' = runs + 1
    /\ i' = 0
    /\ translated_pages' = <<>>
    /\ failed_pages' = <<>>
    /\ total_tokens' = 0
    /\ total_cost' = 0
    /\ windows' = <<>>
    /\ overlap_size' = 0
    /\ translated_windows' = <<>>
    /\ loaded' = <<>>
    /\ calls' = <<>>
    /\ translator_failed' = {}
    /\ ok_units' = <<>>
    /\ save_failed' = {}
    /\ cancelled' = FALSE
    /\ save_calls' = {}
    /\ last_save' = {}
    /\ UNCHANGED <<pages, disk>>

\* `if checkpoint_manager and config.resume_from_checkpoint`
resume_checked == checkpoint_manager # "None" /\ config.resume_from_checkpoint

\* `checkpoint_manager and config.checkpoint_dir and (i + 1) % frequency == 0`
save_due ==
    /\ checkpoint_manager # "None"
    /\ config.checkpoint_dir
    /\ (i + 1) % config.checkpoint_frequency = 0

\* translate_page_by_page up to the loop: CheckpointManager.load is a plain
\* function, so `await checkpoint_manager.load()` runs load and then raises
\* TypeError on awaiting its result; the outer handler wraps it
page_begin ==
    /\ pc = "page_begin"
    /\ UNCHANGED <<files, pure, queue, tracker>>
    /\ IF resume_checked
       THEN /\ loaded' = <<load(config, disk)>>
            /\ outcome' = Raised("TranslationError", "TypeError", <<>>)
            /\ pc' = "done"
       ELSE /\ pc' = "page_loop"
            /\ UNCHANGED <<loaded, outcome>>
    /\ UNCHANGED <<pages, disk, runs, config, checkpoint_manager, locals,
                   ghosts, last_save>>

\* the loop reaches unit i + 1 and awaits translator.translate(request)
page_submit ==
    /\ pc = "page_loop"
    /\ UNCHANGED <<files, pure, queue, tracker>>
    /\ i < Len(pages)
    /\ calls' = Append(calls, i + 1)
    /\ pc' = "page_await"
    /\ UNCHANGED <<pages, disk, runs, config, checkpoint_manager, locals,
                   loaded, translator_failed, ok_units, save_failed, cancelled,
                   save_calls, last_save, outcome>>

\* the state the page algorithm hands to save, given the pages and totals
page_state(tp, fp, tokens, cost) ==
    TranslationState(config.source_lang, config.target_lang, "page",
                     Range1(Len(tp)), fp, EnumerateDict(tp), tokens, cost, 0)

\* the translator returns; a due save runs inside the per-unit try
page_unit_ok ==
    /\ pc = "page_await"
    /\ UNCHANGED <<files, pure, queue, tracker>>
    /\ LET response == TranslatorResponse(pages[i + 1])
           tp == Append(translated_pages, response.text)
           tokens == total_tokens + response.tokens_used
           cost == total_cost + response.cost
       IN  /\ translated_pages' = tp
           /\ total_tokens' = tokens
           /\ total_cost' = cost
           /\ ok_units' = Append(ok_units, i + 1)
           /\ IF save_due
              THEN \E io_ok \in BOOLEAN :
                      LET state == page_state(tp, failed_pages, tokens, cost)
                      IN  /\ disk' = save(config, state, disk, io_ok)
                          /\ IF save_raises(config, io_ok)
                             THEN /\ failed_pages' = Append(failed_pages, i + 1)
                                  /\ save_failed' = save_failed \cup {i + 1}
                                  /\ UNCHANGED last_save
                             ELSE /\ last_save' =
                                        {[state |-> state,
                                          config |-> config,
                                          ok_units |-> ok_units',
                                          translator_failed |-> translator_failed]}
                                  /\ UNCHANGED <<failed_pages, save_failed>>
              ELSE UNCHANGED <<disk, failed_pages, save_failed, last_save>>
    /\ save_calls' = IF save_due THEN save_calls \cup {i + 1} ELSE save_calls
    /\ i' = i + 1
    /\ pc' = "page_loop"
    /\ UNCHANGED <<pages, runs, config, checkpoint_manager, windows,
                   overlap_size, translated_windows, loaded, calls,
                   translator_failed, cancelled, outcome>>

\* mutant: a failed unit is recorded and then submitted again
page_unit_fail_Retry ==
    /\ pc = "page_await"
    /\ UNCHANGED <<files, pure, queue, tracker>>
    /\ failed_pages' = Append(failed_pages, i + 1)
    /\ translator_failed' = translator_failed \cup {i + 1}
    /\ pc' = "page_loop"
    /\ UNCHANGED <<pages, disk, runs, config, checkpoint_manager, i,
                   translated_pages, total_tokens, total_cost, windows,
                   overlap_size, translated_windows, loaded, calls, ok_units,
                   save_failed, cancelled, save_calls, last_save, outcome>>

\* the translator raises: `except Exception` records the unit and goes on
page_unit_fail ==
    /\ pc = "page_await"
    /\ UNCHANGED <<files, pure, queue, tracker>>
    /\ failed_pages' = Append(failed_pages, i + 1)
    /\ translator_failed' = translator_failed \cup {i + 1}
    /\ i' = i + 1
    /\ pc' = "page_loop"
    /\ UNCHANGED <<pages, disk, runs, config, checkpoint_manager,
                   translated_pages, total_tokens, total_cost, windows,
                   overlap_size, translated_windows, loaded, calls, ok_units,
                   save_failed, cancelled, save_calls, last_save, outcome>>

\* after the loop: raise when nothing was translated, else join, clean up
\* and return.  CheckpointManager has no cleanup_old_checkpoints, so the
\* cleanup call raises AttributeError, which the outer handler wraps
page_finish ==
    /\ pc = "page_loop"
    /\ UNCHANGED <<files, pure, queue, tracker>>
    /\ i >= Len(pages)
    /\ outcome' =
          IF translated_pages = <<>>
          THEN Raised("TranslationError", "TranslationError", failed_pages)
          ELSE IF checkpoint_manager # "None"
               THEN Raised("TranslationError", "AttributeError", <<>>)
               ELSE Response(str_join(BlankLine, translated_pages),
                             total_tokens, total_cost)
    /\ pc' = "done"
    /\ UNCHANGED <<pages, disk, runs, config, checkpoint_manager, locals,
                   loaded, ghosts, last_save>>

\* mutant: the cancellation is handled like any exception of the translator
cancel_Caught ==
    /\ pc \in {"page_await", "sw_await"}
    /\ UNCHANGED <<files, pure, queue, tracker>>
    /\ cancelled' = TRUE
    /\ IF pc = "page_await"
       THEN /\ failed_pages' = Append(failed_pages, i + 1)
            /\ i' = i + 1
            /\ pc' = "page_loop"
            /\ UNCHANGED outcome
       ELSE /\ outcome' = Raised("TranslationError", "CancelledError", <<>>)
            /\ pc' = "done"
            /\ UNCHANGED <<i, failed_pages>>
    /\ UNCHANGED <<pages, disk, runs, config, checkpoint_manager,
                   translated_pages, total_tokens, total_cost, windows,
                   overlap_size, translated_windows, loaded, calls,
                   translator_failed, ok_units, save_failed, save_calls, last_save>>

\* the task is cancelled while the translator call is in flight:
\* CancelledError is not an Exception, so no handler catches it
cancel ==
    /\ pc \in {"page_await", "sw_await"}
    /\ UNCHANGED <<files, pure, queue, tracker>>
    /\ cancelled' = TRUE
    /\ outcome' = Raised("CancelledError", "none", <<>>)
    /\ pc' = "done"
    /\ UNCHANGED <<pages, disk, runs, config, checkpoint_manager, locals,
                   loaded, calls, translator_failed, ok_units, save_failed,
                   save_calls, last_save>>

\* `config.window_size if config.window_size is not None else 1000`
DefaultWindowSize == 1000

DefaultOverlapCap == 100

effective_window_size(cfg) ==
    IF cfg.window_size # {} THEN Only(cfg.window_size) ELSE DefaultWindowSize

\* mutant: the default overlap is the window size, capped
effective_overlap_size_NoQuarter(cfg) ==
    IF cfg.overlap_size # {} THEN Only(cfg.overlap_size)
    ELSE Min2(DefaultOverlapCap, effective_window_size(cfg))

\* `config.overlap_size if ... is not None else min(100, window_size // 4)`
effective_overlap_size(cfg) ==
    IF cfg.overlap_size # {} THEN Only(cfg.overlap_size)
    ELSE Min2(DefaultOverlapCap, effective_window_size(cfg) \div 4)

\* mutant: the check of the first unit comes after the resume check
sw_begin_LoadFirst ==
    /\ pc = "sw_begin"
    /\ UNCHANGED <<files, pure, queue, tracker>>
    /\ IF pages = <<>>
       THEN /\ outcome' = Raised("IndexError", "none", <<>>)
            /\ pc' = "done"
            /\ UNCHANGED <<loaded, windows, overlap_size>>
       ELSE IF resume_checked
       THEN /\ loaded' = <<load(config, disk)>>
            /\ outcome' = Raised("TranslationError", "TypeError", <<>>)
            /\ pc' = "done"
            /\ UNCHANGED <<windows, overlap_size>>
       ELSE IF isinstance_bytes(pages[1])
       THEN /\ outcome' = Raised("TranslationError", "none", <<>>)
            /\ pc' = "done"
            /\ UNCHANGED <<loaded, windows, overlap_size>>
       ELSE LET text == str_join(BlankLine, pages)
                window_size == effective_window_size(config)
                overlap == effective_overlap_size(config)
            IN  IF create_windows_raises(text, window_size, overlap)
                THEN /\ outcome' = Raised("TranslationError", "ValueError", <<>>)
                     /\ pc' = "done"
                     /\ UNCHANGED <<loaded, windows, overlap_size>>
                ELSE /\ windows' = create_windows(text, window_size, overlap)
                     /\ overlap_size' = overlap
                     /\ pc' = "sw_loop"
                     /\ UNCHANGED <<loaded, outcome>>
    /\ UNCHANGED <<pages, disk, runs, config, checkpoint_manager, i,
                   translated_pages, failed_pages, total_tokens, total_cost,
                   translated_windows, ghosts, last_save>>

\* translate_sliding_window up to the loop.  content.pages[0] is read before
\* the try block, so a document without units raises IndexError unwrapped;
\* a first unit of bytes raises TranslationError there, before the resume check
sw_begin ==
    /\ pc = "sw_begin"
    /\ UNCHANGED <<files, pure, queue, tracker>>
    /\ IF pages = <<>>
       THEN /\ outcome' = Raised("IndexError", "none", <<>>)
            /\ pc' = "done"
            /\ UNCHANGED <<loaded, windows, overlap_size>>
       ELSE IF isinstance_bytes(pages[1])
       THEN /\ outcome' = Raised("TranslationError", "none", <<>>)
            /\ pc' = "done"
            /\ UNCHANGED <<loaded, windows, overlap_size>>
       ELSE IF resume_checked
       THEN /\ loaded' = <<load(config, disk)>>
            /\ outcome' = Raised("TranslationError", "TypeError", <<>>)
            /\ pc' = "done"
            /\ UNCHANGED <<windows, overlap_size>>
       ELSE LET text == str_join(BlankLine, pages)
                window_size == effective_window_size(config)
                overlap == effective_overlap_size(config)
            IN  IF create_windows_raises(text, window_size, overlap)
                THEN /\ outcome' = Raised("TranslationError", "ValueError", <<>>)
                     /\ pc' = "done"
                     /\ UNCHANGED <<loaded, windows, overlap_size>>
                ELSE /\ windows' = create_windows(text, window_size, overlap)
                     /\ overlap_size' = overlap
                     /\ pc' = "sw_loop"
                     /\ UNCHANGED <<loaded, outcome>>
    /\ UNCHANGED <<pages, disk, runs, config, checkpoint_manager, i,
                   translated_pages, failed_pages, total_tokens, total_cost,
                   translated_windows, ghosts, last_save>>

\* the loop reaches window i + 1 and awaits translator.translate(request)
sw_submit ==
    /\ pc = "sw_loop"
    /\ UNCHANGED <<files, pure, queue, tracker>>
    /\ i < Len(windows)
    /\ calls' = Append(calls, i + 1)
    /\ pc' = "sw_await"
    /\ UNCHANGED <<pages, disk, runs, config, checkpoint_manager, locals,
                   loaded, translator_failed, ok_units, save_failed, cancelled,
                   save_calls, last_save, outcome>>

\* the state the sliding-window algorithm hands to save
sw_state(tw, tokens, cost) ==
    TranslationState(config.source_lang, config.target_lang, "sliding-window",
                     <<1>>, <<>>, EnumerateDict(tw), tokens, cost, 0)

\* the translator returns; a due save is not inside any per-window handler,
\* so a failing save ends the call in the outer handler
sw_unit_ok ==
    /\ pc = "sw_await"
    /\ UNCHANGED <<files, pure, queue, tracker>>
    /\ LET response == TranslatorResponse(windows[i + 1])
           tw == Append(translated_windows, response.text)
           tokens == total_tokens + response.tokens_used
           cost == total_cost + response.cost
       IN  /\ translated_windows' = tw
           /\ total_tokens' = tokens
           /\ total_cost' = cost
           /\ ok_units' = Append(ok_units, i + 1)
           /\ IF save_due
              THEN \E io_ok \in BOOLEAN :
                      LET state == sw_state(tw, tokens, cost)
                      IN  /\ disk' = save(config, state, disk, io_ok)
                          /\ IF save_raises(config, io_ok)
                             THEN /\ outcome' = Raised("TranslationError", "OSError", <<>>)
                                  /\ save_failed' = save_failed \cup {i + 1}
                                  /\ pc' = "done"
                                  /\ UNCHANGED <<i, last_save>>
                             ELSE /\ last_save' =
                                        {[state |-> state,
                                          config |-> config,
                                          ok_units |-> ok_units',
                                          translator_failed |-> translator_failed]}
                                  /\ i' = i + 1
                                  /\ pc' = "sw_loop"
                                  /\ UNCHANGED <<outcome, save_failed>>
              ELSE /\ i' = i + 1
                   /\ pc' = "sw_loop"
                   /\ UNCHANGED <<disk, last_save, outcome, save_failed>>
    /\ save_calls' = IF save_due THEN save_calls \cup {i + 1} ELSE save_calls
    /\ UNCHANGED <<pages, runs, config, checkpoint_manager, translated_pages,
                   failed_pages, windows, overlap_size, loaded, calls,
                   translator_failed, cancelled>>

\* mutant: a failed window is recorded and the loop goes on
sw_unit_fail_Swallow ==
    /\ pc = "sw_await"
    /\ UNCHANGED <<files, pure, queue, tracker>>
    /\ translator_failed' = translator_failed \cup {i + 1}
    /\ failed_pages' = Append(failed_pages, i + 1)
    /\ i' = i + 1
    /\ pc' = "sw_loop"
    /\ UNCHANGED <<pages, disk, runs, config, checkpoint_manager,
                   translated_pages, total_tokens, total_cost, windows,
                   overlap_size, translated_windows, loaded, calls, ok_units,
                   save_failed, cancelled, save_calls, last_save, outcome>>

\* the translator raises: nothing catches it before the outer handler
sw_unit_fail ==
    /\ pc = "sw_await"
    /\ UNCHANGED <<files, pure, queue, tracker>>
    /\ translator_failed' = translator_failed \cup {i + 1}
    /\ outcome' = Raised("TranslationError", "TranslatorError", <<>>)
    /\ pc' = "done"
    /\ UNCHANGED <<pages, disk, runs, config, checkpoint_manager, locals,
                   loaded, calls, ok_units, save_failed, cancelled, save_calls,
                   last_save>>

\* after the loop: merge, clean up (AttributeError, as in the page
\* algorithm, when a manager is given) and return
sw_finish ==
    /\ pc = "sw_loop"
    /\ UNCHANGED <<files, pure, queue, tracker>>
    /\ i >= Len(windows)
    /\ outcome' =
          IF checkpoint_manager # "None"
          THEN Raised("TranslationError", "AttributeError", <<>>)
          ELSE Response(merge_chunks(translated_windows, overlap_size),
                        total_tokens, total_cost)
    /\ pc' = "done"
    /\ UNCHANGED <<pages, disk, runs, config, checkpoint_manager, locals,
                   loaded, ghosts, last_save>>

Next ==
    \/ translate_document
    \/ page_begin
    \/ page_submit
    \/ page_unit_ok
    \/ page_unit_fail
    \/ page_finish
    \/ sw_begin
    \/ sw_submit
    \/ sw_unit_ok
    \/ sw_unit_fail
    \/ sw_finish
    \/ cancel

Spec == Init /\ [][Next]_vars

\* ------------------------------------------- CheckpointManager on its own
\* configs of the managers that save and load: the four compared fields vary
MaxTokens == 7

CkConfigs ==
    [algorithm : {"page", "sliding-window"},
     source_lang : {"en", "fr"},
     target_lang : {"de", "es"},
     model : {"openai", "anthropic"},
     resume_from_checkpoint : {TRUE},
     checkpoint_dir : {TRUE},
     checkpoint_frequency : {1},
     window_size : {{}},
     overlap_size : {{}}]

\* dicts with integer keys, as the annotation dict[int, str] requires
CkChunks ==
    {<<>>,
     <<[key |-> IntKey(1), value |-> <<"A">>]>>,
     <<[key |-> IntKey(2), value |-> <<"B">>]>>,
     <<[key |-> IntKey(1), value |-> <<"A">>], [key |-> IntKey(2), value |-> <<"B">>]>>}

CkStates ==
    {TranslationState("en", "de", "page", Range1(Len(chunks)),
                      IF tokens = 0 THEN <<>> ELSE <<3>>, chunks,
                      tokens, 2 * tokens, tokens)
        : chunks \in CkChunks, tokens \in {0, MaxTokens}}

InitCkpt ==
    /\ pages = <<>>
    /\ disk = {}
    /\ runs = 0
    /\ config \in CkConfigs
    /\ checkpoint_manager = "CheckpointManager"
    /\ pc = "ck_idle"
    /\ i = 0
    /\ translated_pages = <<>>
    /\ failed_pages = <<>>
    /\ total_tokens = 0
    /\ total_cost = 0
    /\ windows = <<>>
    /\ overlap_size = 0
    /\ translated_windows = <<>>
    /\ loaded = <<>>
    /\ calls = <<>>
    /\ translator_failed = {}
    /\ ok_units = <<>>
    /\ save_failed = {}
    /\ last_save = {}
    /\ outcome = Pending
    /\ fs = NoFiles
    /\ saving = {}
    /\ prev = {}
    /\ observed = <<>>
    /\ cancelled = FALSE
    /\ save_calls = {}
    /\ NoCall
    /\ NoQueue
    /\ NoTracker

\* await CheckpointManager(cfg).save(state)
ck_save ==
    /\ pc \in {"ck_idle", "ck_saved", "ck_loaded"}
    /\ UNCHANGED <<files, pure, queue, tracker>>
    /\ \E cfg \in CkConfigs, state \in CkStates, io_ok \in BOOLEAN :
          /\ config' = cfg
          /\ disk' = save(cfg, state, disk, io_ok)
          /\ last_save' =
                IF save_raises(cfg, io_ok) THEN last_save
                ELSE {[state |-> state, config |-> cfg, ok_units |-> <<>>,
                       translator_failed |-> {}]}
    /\ loaded' = <<>>
    /\ pc' = "ck_saved"
    /\ UNCHANGED <<pages, runs, checkpoint_manager, locals, ghosts, outcome>>

\* configs handed to save_checkpoint: with and without a checkpoint directory
CkCallConfigs ==
    CkConfigs \cup {[cfg EXCEPT !.checkpoint_dir = FALSE] : cfg \in CkConfigs}

\* translated pages handed to save_checkpoint
CkPages == {<<>>, <<<<"A">>, <<"B">>>>}

\* await save_checkpoint(cfg, pages, tokens_used, cost)
ck_save_checkpoint ==
    /\ pc \in {"ck_idle", "ck_saved", "ck_loaded"}
    /\ UNCHANGED <<files, pure, queue, tracker>>
    /\ \E cfg \in CkCallConfigs, page_list \in CkPages, tokens \in {0, MaxTokens}, io_ok \in BOOLEAN :
          /\ config' = cfg
          /\ disk' = save_checkpoint(cfg, page_list, tokens, 2 * tokens, disk, io_ok)
          /\ last_save' =
                IF ~cfg.checkpoint_dir \/ save_checkpoint_raises(cfg, io_ok) THEN last_save
                ELSE {[state |-> TranslationState(cfg.source_lang, cfg.target_lang,
                                                  cfg.algorithm, <<>>, <<>>, <<>>,
                                                  tokens, 2 * tokens, 0),
                       config |-> cfg, ok_units |-> <<>>,
                       translator_failed |-> {}]}
    /\ loaded' = <<>>
    /\ pc' = "ck_saved"
    /\ UNCHANGED <<pages, runs, checkpoint_manager, locals, ghosts, outcome>>

\* CheckpointManager(cfg).load()
ck_load ==
    /\ pc \in {"ck_idle", "ck_saved", "ck_loaded"}
    /\ UNCHANGED <<files, pure, queue, tracker>>
    /\ \E cfg \in CkConfigs :
          /\ config' = cfg
          /\ loaded' = <<load(cfg, disk)>>
    /\ pc' = "ck_loaded"
    /\ UNCHANGED <<pages, disk, runs, checkpoint_manager, locals, ghosts,
                   last_save, outcome>>

NextCkpt == ck_save \/ ck_save_checkpoint \/ ck_load

SpecCkpt == InitCkpt /\ [][NextCkpt]_vars

\* C5: save(s) followed by load() under an identical config returns a state
\* equal to s field by field, translated_chunks keys included.
C5_SaveLoadRoundTrip ==
    (pc = "ck_loaded" /\ last_save # {} /\ config = Only(last_save).config)
        => loaded = <<{Only(last_save).state}>>

\* ------------------------------- CheckpointManager.save, one step at a time
\* One process saves while another (a concurrent job on the same document)
\* loads; save has no await, so only another process can interleave.
AtConfig == CHOOSE c \in CkConfigs : TRUE

AtStates == {st \in CkStates : st.failed_pages = <<>> /\ st.token_usage = 0}

InitAtomic ==
    /\ pages = <<>>
    /\ disk = {}
    /\ runs = 0
    /\ config = AtConfig
    /\ checkpoint_manager = "CheckpointManager"
    /\ pc = "at_idle"
    /\ i = 0
    /\ translated_pages = <<>>
    /\ failed_pages = <<>>
    /\ total_tokens = 0
    /\ total_cost = 0
    /\ windows = <<>>
    /\ overlap_size = 0
    /\ translated_windows = <<>>
    /\ loaded = <<>>
    /\ calls = <<>>
    /\ translator_failed = {}
    /\ ok_units = <<>>
    /\ save_failed = {}
    /\ last_save = {}
    /\ outcome = Pending
    /\ fs = NoFiles
    /\ saving = {}
    /\ prev = {}
    /\ observed = <<>>
    /\ cancelled = FALSE
    /\ save_calls = {}
    /\ NoCall
    /\ NoQueue
    /\ NoTracker

orchestration == <<pages, disk, runs, config, checkpoint_manager, locals,
                   loaded, ghosts, last_save, outcome>>

\* save is called: the path is computed and checkpoint_data is built
at_begin ==
    /\ pc = "at_idle"
    /\ \E state \in AtStates : saving' = {checkpoint_data(config, state)}
    /\ prev' = IF fs[CheckpointPath] = {} THEN {}
               ELSE {Only(fs[CheckpointPath]).data}
    /\ pc' = "at_open"
    /\ UNCHANGED <<orchestration, pure, queue, tracker, fs, observed>>

\* open(temp_path, "w") creates or truncates the temporary file
at_open ==
    /\ pc = "at_open"
    /\ fs' = [fs EXCEPT ![temp_path(CheckpointPath)] = {FileContent(Only(saving), 0)}]
    /\ pc' = "at_write"
    /\ UNCHANGED <<orchestration, pure, queue, tracker, saving, prev, observed>>

\* json.dump writes the next piece
at_write ==
    /\ pc = "at_write"
    /\ LET content == Only(fs[temp_path(CheckpointPath)])
       IN  /\ content.written < JsonPieces
           /\ fs' = [fs EXCEPT ![temp_path(CheckpointPath)] =
                                  {FileContent(content.data, content.written + 1)}]
    /\ UNCHANGED <<orchestration, pure, queue, tracker, pc, saving, prev, observed>>

\* the with block closes the file once everything is written
at_close ==
    /\ pc = "at_write"
    /\ Only(fs[temp_path(CheckpointPath)]).written = JsonPieces
    /\ pc' = "at_rename"
    /\ UNCHANGED <<orchestration, pure, queue, tracker, files>>

\* rename(2): the canonical path is replaced in one step
rename(files_, src, dst) ==
    IF src = dst THEN files_
    ELSE [p \in DOMAIN files_ |->
             IF p = dst THEN files_[src] ELSE IF p = src THEN {} ELSE files_[p]]

\* temp_path.rename(checkpoint_path)
at_rename ==
    /\ pc = "at_rename"
    /\ fs' = rename(fs, temp_path(CheckpointPath), CheckpointPath)
    /\ saving' = {}
    /\ pc' = "at_idle"
    /\ UNCHANGED <<orchestration, pure, queue, tracker, prev, observed>>

\* an I/O error at any step: save logs and re-raises, files stay as they are
at_io_error ==
    /\ pc \in {"at_open", "at_write", "at_rename"}
    /\ saving' = {}
    /\ pc' = "at_idle"
    /\ UNCHANGED <<orchestration, pure, queue, tracker, fs, prev, observed>>

\* a concurrent load opens and reads the canonical file
at_load ==
    /\ pc \in {"at_idle", "at_open", "at_write", "at_rename"}
    /\ observed' = <<fs[CheckpointPath]>>
    /\ UNCHANGED <<orchestration, pure, queue, tracker, pc, fs, saving, prev>>

NextAtomic ==
    \/ at_begin
    \/ at_open
    \/ at_write
    \/ at_close
    \/ at_rename
    \/ at_io_error
    \/ at_load

SpecAtomic == InitAtomic /\ [][NextAtomic]_vars

\* ------------------------------------------- functions applied on their own
MaxLen == 5
MaxWin == 4

\* every text over two letters of at most MaxLen characters
Texts == UNION {[1..n -> {"a", "b"}] : n \in 0..MaxLen}

\* no call of translate_document is being made
AtRest ==
    /\ disk = {}
    /\ runs = 0
    /\ config = CHOOSE c \in Configs : TRUE
    /\ checkpoint_manager = "None"
    /\ pc = "idle"
    /\ i = 0
    /\ translated_pages = <<>>
    /\ failed_pages = <<>>
    /\ total_tokens = 0
    /\ total_cost = 0
    /\ windows = <<>>
    /\ overlap_size = 0
    /\ translated_windows = <<>>
    /\ loaded = <<>>
    /\ calls = <<>>
    /\ translator_failed = {}
    /\ ok_units = <<>>
    /\ save_failed = {}
    /\ last_save = {}
    /\ outcome = Pending
    /\ fs = NoFiles
    /\ saving = {}
    /\ prev = {}
    /\ observed = <<>>
    /\ cancelled = FALSE
    /\ save_calls = {}
    /\ NoCall
    /\ NoQueue
    /\ NoTracker

\* the orchestrator is at rest while a function is applied on its own
InitPure ==
    /\ pages = <<>>
    /\ AtRest

Returned(value) == [raised |-> "none", value |-> value]

Raises(kind) == [raised |-> kind, value |-> <<>>]

\* create_windows(text, window_size, overlap_size)
call_create_windows ==
    /\ fn = "none"
    /\ \E text \in Texts, window_size \in 0..MaxWin, overlap \in -1..MaxWin :
          /\ fn' = "create_windows"
          /\ args' = [text |-> text, window_size |-> window_size, overlap_size |-> overlap]
          /\ result' = IF create_windows_raises(text, window_size, overlap)
                        THEN Raises("ValueError")
                        ELSE Returned(create_windows(text, window_size, overlap))
    /\ UNCHANGED <<orchestration, pc, files, queue, tracker>>

\* input documents: a parent directory and a file name, the name as its
\* parts between dots
InputFiles ==
    [parent : {"inbox", "archive"},
     name : {<<"doc", "txt">>, <<"doc", "pdf">>, <<"report", "txt">>, <<"report">>}]

\* PurePath.stem: the name without its last suffix
stem(file) ==
    IF Len(file.name) = 1 THEN file.name
    ELSE SubSeq(file.name, 1, Len(file.name) - 1)

\* _get_checkpoint_path() of the managers of two runs that share one
\* checkpoint directory
call_get_checkpoint_path ==
    /\ fn = "none"
    /\ \E first \in InputFiles, second \in InputFiles :
          /\ fn' = "_get_checkpoint_path"
          /\ args' = <<first, second>>
          /\ result' = Returned(<<get_checkpoint_path(stem(first)),
                                  get_checkpoint_path(stem(second))>>)
    /\ UNCHANGED <<orchestration, pc, files, queue, tracker>>

MaxChunk == 3

\* chunks of at most MaxChunk characters
ShortTexts == UNION {[1..n -> {"a", "b"}] : n \in 0..MaxChunk}

\* lists of at most three chunks
ChunkLists ==
    {<<>>}
        \cup {<<x>> : x \in ShortTexts}
        \cup {<<x, y>> : x \in ShortTexts, y \in ShortTexts}
        \cup {<<x, y, z>> : x \in ShortTexts, y \in ShortTexts, z \in ShortTexts}

HelloWorld == <<"h", "e", "l", "l", "o", " ", "w", "o", "r", "l", "d">>

WorldPeace == <<"w", "o", "r", "l", "d", " ", "p", "e", "a", "c", "e">>

\* the chunk lists and overlap sizes merge_chunks is applied to
MergeInputs ==
    (ChunkLists \X (-1..MaxChunk)) \cup {<<<<HelloWorld, WorldPeace>>, 5>>}

\* merge_chunks(chunks, overlap_size)
call_merge_chunks ==
    /\ fn = "none"
    /\ \E input \in MergeInputs :
          /\ fn' = "merge_chunks"
          /\ args' = [chunks |-> input[1], overlap_size |-> input[2]]
          /\ result' = Returned(merge_chunks(input[1], input[2]))
    /\ UNCHANGED <<orchestration, pc, files, queue, tracker>>

\* texts whose characters are all distinct
DistinctTexts == {SubSeq(Letters, 1, n) : n \in 0..Min2(MaxLen, Len(Letters))}

\* merge_chunks(create_windows(text, window_size, overlap_size), overlap_size),
\* for valid sizes: what translate_sliding_window computes when the
\* translator returns every window unchanged
call_windows_then_merge ==
    /\ fn = "none"
    /\ \E text \in DistinctTexts, window_size \in 1..MaxWin :
          \E overlap \in 0..(window_size - 1) :
             /\ fn' = "windows_then_merge"
             /\ args' = [text |-> text, window_size |-> window_size, overlap_size |-> overlap]
             /\ result' = Returned(merge_chunks(create_windows(text, window_size, overlap),
                                                overlap))
    /\ UNCHANGED <<orchestration, pc, files, queue, tracker>>

\* extract_seam(text1, text2, overlap_size)
call_extract_seam ==
    /\ fn = "none"
    /\ \E text1 \in ShortTexts, text2 \in ShortTexts, overlap \in -1..(MaxChunk + 1) :
          /\ fn' = "extract_seam"
          /\ args' = [text1 |-> text1, text2 |-> text2, overlap_size |-> overlap]
          /\ result' = Returned(extract_seam(text1, text2, overlap))
    /\ UNCHANGED <<orchestration, pc, files, queue, tracker>>

\* await repair_seams(pages, config, translator)
call_repair_seams ==
    /\ fn = "none"
    /\ \E page_list \in ChunkLists, overlap \in 0..MaxChunk :
          /\ fn' = "repair_seams"
          /\ args' = [pages |-> page_list, page_seam_overlap |-> overlap]
          /\ result' = Returned(repair_seams(page_list, overlap))
    /\ UNCHANGED <<orchestration, pc, files, queue, tracker>>

\* MODEL_SPECIFIC_COSTS: the prices per 1K tokens, in units of 1e-5 USD
MODEL_SPECIFIC_COSTS ==
    {[model |-> <<"gpt-5">>, input |-> 125, output |-> 1000],
     [model |-> <<"gpt-5-mini">>, input |-> 25, output |-> 200],
     [model |-> <<"gpt-5-nano">>, input |-> 5, output |-> 40]}

\* model_name.split("/")[-1] if "/" in model_name else model_name; a model
\* name is a sequence of pieces, the piece "/" being the separator
base_model_First(model_name) ==
    LET slashes == {k \in 1..Len(model_name) : model_name[k] = "/"}
    IN  IF slashes = {} THEN model_name
        ELSE SubSeq(model_name, 1, SetMin(slashes) - 1)

base_model(model_name) ==
    LET slashes == {k \in 1..Len(model_name) : model_name[k] = "/"}
    IN  IF slashes = {} THEN model_name
        ELSE SubSeq(model_name, SetMax(slashes) + 1, Len(model_name))

\* calculate_model_cost(model_name, input_tokens, output_tokens), in units of
\* 1e-8 USD: tokens times the price per 1K tokens is (tokens / 1000) * price
calculate_model_cost(model_name, input_tokens, output_tokens) ==
    LET costs == {c \in MODEL_SPECIFIC_COSTS : c.model = base_model(model_name)}
    IN  IF costs # {}
        THEN input_tokens * Only(costs).input + output_tokens * Only(costs).output
        ELSE 0

ModelNames ==
    {<<"gpt-5">>, <<"gpt-5-mini">>, <<"gpt-5-nano">>, <<"gpt-4o">>, <<"GPT-5">>, <<>>,
     <<"openai", "/", "gpt-5">>, <<"openai", "/", "gpt-5-mini">>,
     <<"openai", "/", "gpt-5-nano">>, <<"openai", "/", "gpt-4o">>,
     <<"azure", "/", "openai", "/", "gpt-5">>, <<"gpt-5", "/", "gpt-4o">>,
     <<"gpt-5", "/">>, <<"/", "gpt-5">>}

TokenCounts == (0..MaxTokens) \cup {1000, 50000}

call_calculate_model_cost ==
    /\ fn = "none"
    /\ \E model_name \in ModelNames, input_tokens \in TokenCounts,
          output_tokens \in TokenCounts :
          /\ fn' = "calculate_model_cost"
          /\ args' = [model_name |-> model_name, input_tokens |-> input_tokens,
                       output_tokens |-> output_tokens]
          /\ result' = Returned(calculate_model_cost(model_name, input_tokens,
                                                      output_tokens))
    /\ UNCHANGED <<orchestration, pc, files, queue, tracker>>

\* the window sizes a config may carry: small ones, and those around the
\* size at which the default overlap reaches its cap
WindowSizes == (-1..MaxWin) \cup {399, 400, 401, 1000, 1001}

\* translate_sliding_window up to create_windows: the effective sizes of a
\* config, and whether create_windows rejects them for a text
call_effective_sizes ==
    /\ fn = "none"
    /\ \E window_size \in {{}} \cup {{w} : w \in WindowSizes},
          overlap \in {{}} \cup {{o} : o \in -1..MaxWin},
          text \in {<<>>, <<"a">>} :
          LET cfg == [window_size |-> window_size, overlap_size |-> overlap]
          IN  /\ fn' = "effective_sizes"
              /\ args' = [window_size |-> window_size, overlap_size |-> overlap,
                           text |-> text]
              /\ result' =
                    Returned([window_size |-> effective_window_size(cfg),
                              overlap_size |-> effective_overlap_size(cfg),
                              rejected |->
                                  create_windows_raises(text,
                                                        effective_window_size(cfg),
                                                        effective_overlap_size(cfg))])
    /\ UNCHANGED <<orchestration, pc, files, queue, tracker>>

NextPure ==
    \/ call_create_windows
    \/ call_get_checkpoint_path
    \/ call_merge_chunks
    \/ call_windows_then_merge
    \/ call_extract_seam
    \/ call_repair_seams
    \/ call_calculate_model_cost
    \/ call_effective_sizes

SpecPure == InitPure /\ [][NextPure]_vars

\* --------------------------------------------- TranslationProgress on its own
MaxUpdates == 3

\* TranslationProgress(total_pages, progress, task_id): bar is the progress
\* bar's task when a bar was handed in
TranslationProgress(total_pages, has_bar) ==
    [total_pages |-> total_pages, completed_pages |-> 0, failed_pages |-> <<>>,
     token_usage |-> 0, cost |-> 0,
     bar |-> IF has_bar THEN {[completed |-> 0, total |-> total_pages]} ELSE {}]

\* the responses handed to update: tokens_used and cost
ProgressResponses == {[tokens_used |-> 1, cost |-> 2], [tokens_used |-> 2, cost |-> 3]}

\* mutant: a failed page is counted as completed too
update_CountFailed(self, page_number, response, error) ==
    LET counted == IF error # {}
                   THEN [self EXCEPT !.failed_pages = Append(@, page_number),
                                     !.completed_pages = @ + 1]
                   ELSE IF response # {}
                   THEN [self EXCEPT !.completed_pages = @ + 1,
                                     !.token_usage = @ + Only(response).tokens_used,
                                     !.cost = @ + Only(response).cost]
                   ELSE [self EXCEPT !.completed_pages = @ + 1]
    IN  IF counted.bar # {}
        THEN [counted EXCEPT !.bar = {[completed |-> counted.completed_pages,
                                       total |-> counted.total_pages]}]
        ELSE counted

\* TranslationProgress.update(page_number, response, error): the object after
\* the call; response and error are Optional
update(self, page_number, response, error) ==
    LET counted == IF error # {}
                   THEN [self EXCEPT !.failed_pages = Append(@, page_number)]
                   ELSE IF response # {}
                   THEN [self EXCEPT !.completed_pages = @ + 1,
                                     !.token_usage = @ + Only(response).tokens_used,
                                     !.cost = @ + Only(response).cost]
                   ELSE [self EXCEPT !.completed_pages = @ + 1]
    IN  IF counted.bar # {}
        THEN [counted EXCEPT !.bar = {[completed |-> counted.completed_pages,
                                       total |-> counted.total_pages]}]
        ELSE counted

\* TranslationProgress.__init__
TranslationProgress_init ==
    /\ translation_progress = {}
    /\ \E total_pages \in 0..MaxPages, has_bar \in BOOLEAN :
          translation_progress' = {TranslationProgress(total_pages, has_bar)}
    /\ UNCHANGED <<orchestration, pc, files, pure, queue, updates>>

\* one call of update on the object
TranslationProgress_update ==
    /\ translation_progress # {}
    /\ Len(updates) < MaxUpdates
    /\ \E page_number \in 1..Only(translation_progress).total_pages,
          response \in {{}} \cup {{r} : r \in ProgressResponses},
          error \in {{}, {"Exception"}} :
          /\ translation_progress' =
                {update(Only(translation_progress), page_number, response, error)}
          /\ updates' = Append(updates, [page_number |-> page_number,
                                          response |-> response, error |-> error])
    /\ UNCHANGED <<orchestration, pc, files, pure, queue>>

NextProgress ==
    \/ TranslationProgress_init
    \/ TranslationProgress_update

SpecProgress == InitPure /\ [][NextProgress]_vars

\* ------------------------------------------------------------ the JobQueue
\* src/src/tinbox/api/jobs.py.  Job ids are 1, 2, ... in creation order.  All
\* coroutines run on one event loop, so an action is the code between two
\* suspensions.  start_job may be called any number of times for a job: each
\* call creates a task of execute_job, and job.task is the latest one.  The
\* executor handed to start_job is the server's execute_translation or another
\* callable; it suspends at least once and has no handler that catches a
\* cancellation.  Every request names the same file, whose document is
\* `pages`.  A registered callback returns, raises, or is a coroutine function
\* that suspends once before it returns (as the server's send_progress does
\* on the websocket).
MaxJobs == 3

\* one task more than there are slots, so that a task has to wait
MaxTasks == MaxConcurrent + 1

\* TranslateRequest: the field that decides how the document is translated
Requests == [algorithm : {"page", "sliding-window"}]

\* Job.__init__
Job(request) == [request |-> request, status |-> "pending", result |-> {}, error |-> {}, task |-> FALSE, progress |-> {}]

\* the executors handed to start_job
Executors == {"execute_translation", "callable"}

\* asyncio.create_task(self.execute_job(job_id, executor)).  pc is where the
\* task is suspended; cancel_requested tells that task.cancel() was called
\* before the task was over, must_cancel that the CancelledError of such a
\* call is still to be thrown; stage, k and detached describe the
\* _notify_progress call the task is suspended in (which call, the position
\* of the suspended callback, and the list the loop iterates once it is no
\* longer the registered one); sink_calls are the calls of the
\* progress_callback handed to the executor, waited tells that the task had
\* to wait for a slot, executor how the executor ended
Task(callable) == [callable |-> callable, pc |-> "created", cancel_requested |-> FALSE, must_cancel |-> FALSE, stage |-> "none", k |-> 0, detached |-> {}, sink_calls |-> <<>>, waited |-> FALSE, executor |-> "none"]

\* the queue is created, the file of the requests holds a text document
InitJobs ==
    /\ pages = DocumentOf(MaxPages)
    /\ AtRest

\* create_job(request)
create_job(request) ==
    /\ Len(jobs) < MaxJobs
    /\ jobs' = Append(jobs, Job(request))
    /\ tasks' = Append(tasks, <<>>)
    /\ progress_callbacks' = Append(progress_callbacks, <<>>)
    /\ UNCHANGED <<orchestration, pc, files, pure, tracker, semaphore, callback_log>>

\* the tasks created so far, for all jobs together
RECURSIVE started(_)
started(all_tasks) ==
    IF all_tasks = <<>> THEN 0 ELSE Len(Head(all_tasks)) + started(Tail(all_tasks))

\* start_job(job_id, executor): job.task = asyncio.create_task(execute_job(...))
start_job(job_id, callable) ==
    /\ job_id \in 1..Len(jobs)
    /\ started(tasks) < MaxTasks
    /\ jobs' = [jobs EXCEPT ![job_id].task = TRUE]
    /\ tasks' = [tasks EXCEPT ![job_id] = Append(@, Task(callable))]
    /\ UNCHANGED <<orchestration, pc, files, pure, tracker, semaphore,
                   progress_callbacks, callback_log>>

\* the slot is taken: status RUNNING, then the executor is awaited
run_executor(job_id, n) ==
    /\ semaphore' = semaphore - 1
    /\ jobs' = [jobs EXCEPT ![job_id].status = "running"]
    /\ tasks' = [tasks EXCEPT ![job_id][n].pc = "executor"]

\* task n of the job exists
is_task(job_id, n) == job_id \in 1..Len(jobs) /\ n \in 1..Len(tasks[job_id])

\* execute_job starts: `async with self.semaphore` takes a free slot at once
\* or suspends until one is released
execute_job_enter(job_id, n) ==
    /\ is_task(job_id, n)
    /\ tasks[job_id][n].pc = "created"
    /\ ~tasks[job_id][n].must_cancel
    /\ IF semaphore > 0
       THEN run_executor(job_id, n)
       ELSE /\ tasks' = [tasks EXCEPT ![job_id][n].pc = "waiting",
                                      ![job_id][n].waited = TRUE]
            /\ UNCHANGED <<jobs, semaphore>>
    /\ UNCHANGED <<orchestration, pc, files, pure, tracker, progress_callbacks,
                   callback_log>>

\* mutant: a waiting execute_job goes on without a free slot
execute_job_acquired_NoSlot(job_id, n) ==
    /\ is_task(job_id, n)
    /\ tasks[job_id][n].pc = "waiting"
    /\ ~tasks[job_id][n].must_cancel
    /\ run_executor(job_id, n)
    /\ UNCHANGED <<orchestration, pc, files, pure, tracker, progress_callbacks,
                   callback_log>>

\* a waiting execute_job is woken by a release
execute_job_acquired(job_id, n) ==
    /\ is_task(job_id, n)
    /\ tasks[job_id][n].pc = "waiting"
    /\ ~tasks[job_id][n].must_cancel
    /\ semaphore > 0
    /\ run_executor(job_id, n)
    /\ UNCHANGED <<orchestration, pc, files, pure, tracker, progress_callbacks,
                   callback_log>>

RECURSIVE document_tokens(_)
\* the tokens of the translator's responses to the units of doc
document_tokens(doc) ==
    IF doc = <<>> THEN 0
    ELSE TranslatorResponse(Head(doc)).tokens_used + document_tokens(Tail(doc))

RECURSIVE document_cost(_)
\* the cost of the translator's responses to the units of doc
document_cost(doc) ==
    IF doc = <<>> THEN 0
    ELSE TranslatorResponse(Head(doc)).cost + document_cost(Tail(doc))

\* TranslationConfig(source_lang=, target_lang=, model=, algorithm=) of
\* execute_translation: the other fields keep their defaults
server_config(request) ==
    [algorithm |-> request.algorithm, source_lang |-> "en", target_lang |-> "de",
     model |-> "openai", resume_from_checkpoint |-> FALSE, checkpoint_dir |-> FALSE,
     checkpoint_frequency |-> 1, window_size |-> {}, overlap_size |-> {}]

\* translate_page_by_page without a checkpoint manager, the translator
\* raising on the units of `failing`: what the call returns or raises
page_result(doc, failing) ==
    LET ok == SelectSeq(Range1(Len(doc)), LAMBDA u : u \notin failing)
        translated == [j \in 1..Len(ok) |-> doc[ok[j]]]
    IN  IF ok = <<>>
        THEN Raised("TranslationError", "TranslationError",
                    SelectSeq(Range1(Len(doc)), LAMBDA u : u \in failing))
        ELSE Response(str_join(BlankLine, [j \in 1..Len(ok) |-> TranslatorText(translated[j])]),
                      document_tokens(translated), document_cost(translated))

\* translate_sliding_window without a checkpoint manager, the translator
\* raising on the windows of `failing`
sliding_window_result(doc, cfg, failing) ==
    IF doc = <<>> THEN Raised("IndexError", "none", <<>>)
    ELSE IF isinstance_bytes(doc[1]) THEN Raised("TranslationError", "none", <<>>)
    ELSE LET text == str_join(BlankLine, doc)
             window_size == effective_window_size(cfg)
             overlap == effective_overlap_size(cfg)
         IN  IF create_windows_raises(text, window_size, overlap)
             THEN Raised("TranslationError", "ValueError", <<>>)
             ELSE LET ws == create_windows(text, window_size, overlap)
                  IN  IF failing \cap (1..Len(ws)) # {}
                      THEN Raised("TranslationError", "TranslatorError", <<>>)
                      ELSE Response(merge_chunks([j \in 1..Len(ws) |-> TranslatorText(ws[j])], overlap),
                                    document_tokens(ws), document_cost(ws))

\* `response = await translate_document(content=, config=, translator=)` of
\* execute_translation
translation_result(doc, request, failing) ==
    IF request.algorithm = "page" THEN page_result(doc, failing)
    ELSE sliding_window_result(doc, server_config(request), failing)

\* ProgressTracker.update(page=total_pages, tokens=response.tokens_used,
\* cost=response.cost) of the executor: the keyword arguments it hands to
\* progress_callback (the clock left out)
final_progress(doc, response) ==
    [current_page |-> Len(doc), total_pages |-> Len(doc),
     tokens_used |-> response.tokens_used, cost_so_far |-> response.cost]

\* Job.update_progress(**kwargs): the job with its new ProgressUpdate
update_progress(job, job_id, kwargs) ==
    [job EXCEPT !.progress =
        {[job_id |-> job_id, status |-> job.status,
          current_page |-> kwargs.current_page, total_pages |-> kwargs.total_pages,
          tokens_used |-> kwargs.tokens_used, cost_so_far |-> kwargs.cost_so_far]}]

\* mutant: the loop of _notify_progress ends at a callback that raises
notify_calls_StopAtRaise(callbacks, from) ==
    LET stopping == {j \in from..Len(callbacks) : callbacks[j] \in {"async", "raises"}}
        stop == IF stopping = {} THEN 0 ELSE SetMin(stopping)
    IN  [last |-> IF stop = 0 THEN Len(callbacks) ELSE stop,
         suspended |-> IF stop # 0 /\ callbacks[stop] = "async" THEN stop ELSE 0]

\* the loop of _notify_progress over `callbacks` from position `from` on: it
\* calls them in order, whether they raise or not, up to and including the
\* first coroutine callback, in which it is suspended (0: in none)
notify_calls(callbacks, from) ==
    LET suspending == {j \in from..Len(callbacks) : callbacks[j] = "async"}
        stop == IF suspending = {} THEN 0 ELSE SetMin(suspending)
    IN  [last |-> IF stop = 0 THEN Len(callbacks) ELSE stop, suspended |-> stop]

\* the call of callback j of `callbacks` with job.progress
callback_call(job_id, job, callbacks, j) ==
    [job_id |-> job_id, callback |-> j, of |-> Len(callbacks),
     raised |-> callbacks[j] = "raises", progress |-> Only(job.progress)]

\* `except Exception` of execute_job
failed(job) == [job EXCEPT !.status = "failed", !.error = {"str(e)"}]

\* the executor has returned: COMPLETED with its result
completed(job) == [job EXCEPT !.status = "completed", !.result = {"result"}]

\* `except asyncio.CancelledError` of execute_job
cancelled_by_user(job) ==
    [job EXCEPT !.status = "cancelled", !.error = {"Job cancelled by user"}]

\* a task that goes on from where it was suspended: the job and the task as
\* they are, the callback calls made and whether the slot is released
Resumed(job_id, n) ==
    [job |-> jobs[job_id], task |-> tasks[job_id][n], log |-> <<>>, released |-> FALSE]

\* execute_job is left (how: "returned", or "cancelled" when a CancelledError
\* leaves it); `async with self.semaphore` releases the slot
leave(run, how) ==
    [run EXCEPT !.task.pc = how, !.task.stage = "none", !.task.k = 0,
                !.task.detached = {}, !.released = TRUE]

RECURSIVE notify_progress(_, _, _, _, _, _)
RECURSIVE after_notify(_, _, _, _)

\* what follows the _notify_progress call of `stage` in execute_job.  After
\* the report of the executor ("reported") the executor goes on:
\* execute_translation builds its result from response.time_elapsed, which a
\* TranslationResponse does not have, and so raises; another callable returns
\* or raises (ends).  `except Exception` and the success path notify once more
\* and leave; `except CancelledError` notifies and re-raises
after_notify(job_id, run, stage, ends) ==
    CASE stage = "reported" ->
            IF run.task.callable # "execute_translation" /\ ends = "returns"
            THEN notify_progress(job_id, progress_callbacks[job_id],
                                 [run EXCEPT !.job = completed(@),
                                             !.task.executor = "returned"],
                                 "completed", 1, ends)
            ELSE notify_progress(job_id, progress_callbacks[job_id],
                                 [run EXCEPT !.job = failed(@),
                                             !.task.executor = "raised"],
                                 "failed", 1, ends)
      [] stage \in {"completed", "failed"} -> leave(run, "returned")
      [] OTHER -> leave(run, "cancelled")

\* _notify_progress(job_id) called in `stage` of execute_job (from = 1), or
\* going on after the callback at position from - 1 has returned: nothing is
\* called when the job has no progress; the task is suspended in the first
\* coroutine callback, or goes on in execute_job
notify_progress(job_id, callbacks, run, stage, from, ends) ==
    IF from = 1 /\ run.job.progress = {} THEN after_notify(job_id, run, stage, ends)
    ELSE LET loop == notify_calls(callbacks, from)
             called == [run EXCEPT !.log = @ \o
                           [j \in 1..(loop.last - from + 1) |->
                               callback_call(job_id, run.job, callbacks, from + j - 1)]]
         IN  IF loop.suspended = 0 THEN after_notify(job_id, called, stage, ends)
             ELSE [called EXCEPT !.task.pc = "callback", !.task.stage = stage,
                                 !.task.k = loop.suspended,
                                 !.task.detached = IF from = 1 THEN {} ELSE @]

\* the step of task n of the job has been taken
step_taken(job_id, n, run) ==
    /\ jobs' = [jobs EXCEPT ![job_id] = run.job]
    /\ tasks' = [tasks EXCEPT ![job_id][n] = run.task]
    /\ callback_log' = callback_log \o run.log
    /\ semaphore' = IF run.released THEN semaphore + 1 ELSE semaphore
    /\ UNCHANGED <<orchestration, pc, files, pure, tracker, progress_callbacks>>

\* the executor raises before it has a translation to report (the document
\* cannot be loaded, the model name is not known): `except Exception` marks
\* the job FAILED and notifies the callbacks
executor_raises(job_id, n) ==
    /\ is_task(job_id, n)
    /\ tasks[job_id][n].pc = "executor"
    /\ ~tasks[job_id][n].must_cancel
    /\ step_taken(job_id, n,
          notify_progress(job_id, progress_callbacks[job_id],
                          [Resumed(job_id, n) EXCEPT !.job = failed(@),
                                                     !.task.executor = "raised"],
                          "failed", 1, "raises"))

\* translate_document has ended, the translator having raised on the units of
\* `failing`.  When it raised, so does the executor.  When it returned, the
\* executor reports the final progress through progress_callback, which
\* updates the job and notifies the callbacks, and then ends
executor_translated(job_id, n, failing, ends) ==
    /\ is_task(job_id, n)
    /\ tasks[job_id][n].pc = "executor"
    /\ ~tasks[job_id][n].must_cancel
    /\ LET response == translation_result(pages, jobs[job_id].request, failing)
           kwargs == final_progress(pages, response)
       IN  step_taken(job_id, n,
              IF response.kind # "response"
              THEN notify_progress(job_id, progress_callbacks[job_id],
                                   [Resumed(job_id, n) EXCEPT !.job = failed(@),
                                                              !.task.executor = "raised"],
                                   "failed", 1, ends)
              ELSE notify_progress(job_id, progress_callbacks[job_id],
                                   [Resumed(job_id, n) EXCEPT
                                       !.job = update_progress(@, job_id, kwargs),
                                       !.task.sink_calls = Append(@, kwargs)],
                                   "reported", 1, ends))

\* the list the suspended _notify_progress call of task n iterates
iterated(job_id, n) ==
    IF tasks[job_id][n].detached # {} THEN Only(tasks[job_id][n].detached)
    ELSE progress_callbacks[job_id]

\* the coroutine callback a task is suspended in returns (or raises, which
\* `except Exception: pass` makes the same): the loop goes on with the next
\* callback
callback_returns(job_id, n, ends) ==
    /\ is_task(job_id, n)
    /\ tasks[job_id][n].pc = "callback"
    /\ ~tasks[job_id][n].must_cancel
    /\ step_taken(job_id, n,
          notify_progress(job_id, iterated(job_id, n), Resumed(job_id, n),
                          tasks[job_id][n].stage, tasks[job_id][n].k + 1, ends))

\* how the executor ended, for a task cancelled inside the try block: by the
\* cancellation when it was still running (at its await, or in a callback of
\* its report), as it had ended when it has returned already (the task is
\* in a callback of the notification of success)
ended_by_cancel(executor) == IF executor = "none" THEN "cancelled" ELSE executor

\* the CancelledError is thrown inside the try block of execute_job
in_try(task) ==
    \/ task.pc = "executor"
    \/ task.pc = "callback" /\ task.stage \in {"reported", "completed"}

\* mutant: the cancellation is handled by the `except Exception` branch
execute_job_cancelled_AsFailed(job_id, n) ==
    /\ is_task(job_id, n)
    /\ tasks[job_id][n].pc \in {"created", "waiting", "executor", "callback"}
    /\ tasks[job_id][n].must_cancel
    /\ LET run == [Resumed(job_id, n) EXCEPT !.task.must_cancel = FALSE]
       IN  step_taken(job_id, n,
              IF run.task.pc \in {"created", "waiting"}
              THEN [run EXCEPT !.task.pc = "cancelled"]
              ELSE IF in_try(run.task)
              THEN notify_progress(job_id, progress_callbacks[job_id],
                                   [run EXCEPT !.job = failed(@),
                                               !.task.executor = ended_by_cancel(@)],
                                   "failed", 1, "raises")
              ELSE leave(run, "cancelled"))

\* mutant: the slot of a cancelled job is not released
execute_job_cancelled_KeepsSlot(job_id, n) ==
    /\ is_task(job_id, n)
    /\ tasks[job_id][n].pc \in {"created", "waiting", "executor", "callback"}
    /\ tasks[job_id][n].must_cancel
    /\ LET run == [Resumed(job_id, n) EXCEPT !.task.must_cancel = FALSE]
           ended == IF run.task.pc \in {"created", "waiting"}
                    THEN [run EXCEPT !.task.pc = "cancelled"]
                    ELSE IF in_try(run.task)
                    THEN notify_progress(job_id, progress_callbacks[job_id],
                                         [run EXCEPT !.job = cancelled_by_user(@),
                                                     !.task.executor = ended_by_cancel(@)],
                                         "cancelled", 1, "raises")
                    ELSE leave(run, "cancelled")
       IN  step_taken(job_id, n, [ended EXCEPT !.released = FALSE])

\* a cancelled task is resumed: the CancelledError is thrown where it is
\* suspended.  Before its first step, or waiting for a slot, the task just
\* ends.  Inside the try block (at the await of the executor, or in a callback
\* of the executor's report or of the notification of success)
\* `except asyncio.CancelledError` marks the job, notifies the callbacks and
\* re-raises.  In a callback of a notification made by an except branch the
\* error leaves execute_job at once.  Leaving releases the slot
execute_job_cancelled(job_id, n) ==
    /\ is_task(job_id, n)
    /\ tasks[job_id][n].pc \in {"created", "waiting", "executor", "callback"}
    /\ tasks[job_id][n].must_cancel
    /\ LET run == [Resumed(job_id, n) EXCEPT !.task.must_cancel = FALSE]
       IN  step_taken(job_id, n,
              IF run.task.pc \in {"created", "waiting"}
              THEN [run EXCEPT !.task.pc = "cancelled"]
              ELSE IF in_try(run.task)
              THEN notify_progress(job_id, progress_callbacks[job_id],
                                   [run EXCEPT !.job = cancelled_by_user(@),
                                               !.task.executor = ended_by_cancel(@)],
                                   "cancelled", 1, "raises")
              ELSE leave(run, "cancelled"))

\* task.cancel() on the latest task of the job: nothing when the task is over
task_cancel(job_tasks) ==
    IF job_tasks[Len(job_tasks)].pc \in {"returned", "cancelled"} THEN job_tasks
    ELSE [job_tasks EXCEPT ![Len(job_tasks)].cancel_requested = TRUE,
                           ![Len(job_tasks)].must_cancel = TRUE]

\* mutant: a job that is not running is reported as cancelled too
cancel_job_AlwaysTrue(job_id) ==
    /\ fn' = "cancel_job"
    /\ IF job_id \notin 1..Len(jobs)
       THEN /\ result' = Returned(FALSE)
            /\ UNCHANGED <<jobs, tasks>>
       ELSE IF jobs[job_id].status = "pending"
       THEN /\ jobs' = [jobs EXCEPT ![job_id].status = "cancelled"]
            /\ result' = Returned(TRUE)
            /\ UNCHANGED tasks
       ELSE IF jobs[job_id].status = "running" /\ jobs[job_id].task
       THEN /\ tasks' = [tasks EXCEPT ![job_id] = task_cancel(@)]
            /\ jobs' = [jobs EXCEPT ![job_id].status = "cancelled"]
            /\ result' = Returned(TRUE)
       ELSE /\ result' = Returned(TRUE)
            /\ UNCHANGED <<jobs, tasks>>
    /\ UNCHANGED <<orchestration, pc, files, tracker, args, semaphore,
                   progress_callbacks, callback_log>>

\* cancel_job(job_id), for known and unknown ids; result is what it returns
cancel_job(job_id) ==
    /\ fn' = "cancel_job"
    /\ IF job_id \notin 1..Len(jobs)
       THEN /\ result' = Returned(FALSE)
            /\ UNCHANGED <<jobs, tasks>>
       ELSE IF jobs[job_id].status = "pending"
       THEN /\ jobs' = [jobs EXCEPT ![job_id].status = "cancelled"]
            /\ result' = Returned(TRUE)
            /\ UNCHANGED tasks
       ELSE IF jobs[job_id].status = "running" /\ jobs[job_id].task
       THEN /\ tasks' = [tasks EXCEPT ![job_id] = task_cancel(@)]
            /\ jobs' = [jobs EXCEPT ![job_id].status = "cancelled"]
            /\ result' = Returned(TRUE)
       ELSE /\ result' = Returned(FALSE)
            /\ UNCHANGED <<jobs, tasks>>
    /\ UNCHANGED <<orchestration, pc, files, tracker, args, semaphore,
                   progress_callbacks, callback_log>>

\* the callbacks registered for all jobs together
RECURSIVE registered(_)
registered(callbacks) ==
    IF callbacks = <<>> THEN 0 ELSE Len(Head(callbacks)) + registered(Tail(callbacks))

\* register_progress_callback(job_id, callback): the list of the job is
\* created when the job has none, and the callback is appended to it
register_progress_callback(job_id, callback) ==
    /\ job_id \in 1..Len(jobs)
    /\ progress_callbacks' = [progress_callbacks EXCEPT ![job_id] = Append(@, callback)]
    /\ UNCHANGED <<orchestration, pc, files, pure, tracker, jobs, tasks, semaphore,
                   callback_log>>

\* unregister_progress_callbacks(job_id): the list of the job is removed from
\* the dict; a _notify_progress call suspended in one of its callbacks goes
\* on iterating it
unregister_progress_callbacks(job_id) ==
    /\ job_id \in 1..Len(jobs)
    /\ progress_callbacks' = [progress_callbacks EXCEPT ![job_id] = <<>>]
    /\ tasks' = [tasks EXCEPT ![job_id] =
                    [n \in 1..Len(tasks[job_id]) |->
                        IF tasks[job_id][n].pc = "callback" /\ tasks[job_id][n].detached = {}
                        THEN [tasks[job_id][n] EXCEPT !.detached = {progress_callbacks[job_id]}]
                        ELSE tasks[job_id][n]]]
    /\ UNCHANGED <<orchestration, pc, files, pure, tracker, jobs, semaphore,
                   callback_log>>

\* a step of some task of execute_job other than in a callback, with a
\* translator that never fails
task_step ==
    \E job_id \in 1..MaxJobs, n \in 1..MaxTasks :
        \/ execute_job_enter(job_id, n)
        \/ execute_job_acquired(job_id, n)
        \/ executor_raises(job_id, n)
        \/ \E ends \in {"returns", "raises"} : executor_translated(job_id, n, {}, ends)
        \/ execute_job_cancelled(job_id, n)

\* the coroutine callback some task is suspended in ends
callback_step ==
    \E job_id \in 1..MaxJobs, n \in 1..MaxTasks, ends \in {"returns", "raises"} :
        callback_returns(job_id, n, ends)

\* jobs over one document translated page by page, each started once, as the
\* server starts them; the first job is watched by at most one callback,
\* which suspends, as the one of the websocket does
NextJobs ==
    \/ \E request \in {r \in Requests : r.algorithm = "page"} : create_job(request)
    \/ \E job_id \in 1..Len(jobs) :
          ~jobs[job_id].task /\ start_job(job_id, "callable")
    \/ task_step
    \/ callback_step
    \/ \E job_id \in 1..(MaxJobs + 1) : cancel_job(job_id)
    \/ jobs # <<>> /\ registered(progress_callbacks) = 0
          /\ register_progress_callback(1, "async")
    \/ unregister_progress_callbacks(1)

SpecJobs == InitJobs /\ [][NextJobs]_vars

\* the event loop keeps running the tasks that can run, every executor
\* returns, raises or is cancelled, and so does every callback; a task takes
\* finitely many steps, so no task that can run is passed over for ever
FairJobs == WF_vars(task_step)

\* as many jobs as the queue has slots, started any number of times: one
\* task more than there are slots, so that a task waits
NextJobsFair ==
    \/ \E request \in {r \in Requests : r.algorithm = "page"} :
          Len(jobs) < MaxConcurrent /\ create_job(request)
    \/ \E job_id \in 1..MaxConcurrent : start_job(job_id, "callable")
    \/ \E job_id \in 1..MaxConcurrent : cancel_job(job_id)
    \/ task_step

SpecJobsFair == InitJobs /\ [][NextJobsFair]_vars /\ FairJobs

\* ------------------------------------------------ the callbacks of one job
MaxCallbacks == 2

\* one job, started once and watched by callbacks that return, raise or
\* suspend; they are unregistered at any time, and registered at any time
\* but while a suspended notification still iterates an unregistered list
NextCallbacks ==
    \/ \E request \in {r \in Requests : r.algorithm = "page"} :
          jobs = <<>> /\ create_job(request)
    \/ \E job_id \in 1..Len(jobs) :
          ~jobs[job_id].task /\ start_job(job_id, "callable")
    \/ execute_job_enter(1, 1)
    \/ executor_raises(1, 1)
    \/ \E ends \in {"returns", "raises"} :
          \/ executor_translated(1, 1, {}, ends)
          \/ callback_returns(1, 1, ends)
    \/ execute_job_cancelled(1, 1)
    \/ cancel_job(1)
    \/ \E callback \in {"returns", "raises", "async"} :
          (jobs # <<>> /\ registered(progress_callbacks) < MaxCallbacks
              /\ \A n \in 1..Len(tasks[1]) : tasks[1][n].detached = {})
             /\ register_progress_callback(1, callback)
    \/ unregister_progress_callbacks(1)

SpecCallbacks == InitJobs /\ [][NextCallbacks]_vars

\* one job that start_job starts any number of times, one task more than
\* there are slots, watched by a callback that suspends
NextRestart ==
    \/ \E request \in {r \in Requests : r.algorithm = "page"} :
          jobs = <<>> /\ create_job(request)
    \/ start_job(1, "callable")
    \/ task_step
    \/ callback_step
    \/ cancel_job(1)
    \/ jobs # <<>> /\ registered(progress_callbacks) = 0
          /\ register_progress_callback(1, "async")

SpecRestart == InitJobs /\ [][NextRestart]_vars

\* the queue is created, the file of the request holds a text document of
\* any length
InitTranslation ==
    /\ pages \in {DocumentOf(n) : n \in 0..MaxPages}
    /\ AtRest

\* the translator raises on no unit, on the first one, or on every one
Failing == {{}, {1}, 1..Len(pages)}

\* start_translation of the server (POST /api/translate) for a request that
\* passes its validation: create_job and start_job with execute_translation,
\* with no suspension in between, so the job exists only with its task
start_translation(request) ==
    /\ Len(jobs) < MaxJobs
    /\ started(tasks) < MaxTasks
    /\ jobs' = Append(jobs, [Job(request) EXCEPT !.task = TRUE])
    /\ tasks' = Append(tasks, <<Task("execute_translation")>>)
    /\ progress_callbacks' = Append(progress_callbacks, <<>>)
    /\ UNCHANGED <<orchestration, pc, files, pure, tracker, semaphore, callback_log>>

\* the server with one request: POST /api/translate; the websocket registers
\* its callback, which suspends, and unregisters it; DELETE
\* /api/jobs/{job_id} cancels; the task of the job takes its steps
NextTranslation ==
    \/ \E request \in Requests : jobs = <<>> /\ start_translation(request)
    \/ execute_job_enter(1, 1)
    \/ executor_raises(1, 1)
    \/ \E failing \in Failing : executor_translated(1, 1, failing, "raises")
    \/ callback_returns(1, 1, "raises")
    \/ execute_job_cancelled(1, 1)
    \/ cancel_job(1)
    \/ jobs # <<>> /\ registered(progress_callbacks) = 0
          /\ register_progress_callback(1, "async")
    \/ unregister_progress_callbacks(1)

SpecTranslation == InitTranslation /\ [][NextTranslation]_vars

\* ================================================================ claims
\* translations of the listed units, in the listed order
TranslationsOf(units) == [k \in 1..Len(units) |-> TranslatorText(pages[units[k]])]

\* the units 1..n outside F, in document order
UnitsNotIn(F, n) == SelectSeq(Range1(n), LAMBDA u : u \notin F)

RECURSIVE SumOver(_, _)
SumOver(f(_), units) ==
    IF units = <<>> THEN 0 ELSE f(Head(units)) + SumOver(f, Tail(units))

UnitTokens(u) == TranslatorResponse(pages[u]).tokens_used

UnitCost(u) == TranslatorResponse(pages[u]).cost

\* a page-algorithm call has ended other than by cancellation
PageEnded ==
    /\ pc = "done"
    /\ config.algorithm = "page"
    /\ outcome.kind # "CancelledError"

\* no checkpoint seeded the call: load was not called or returned None
NotSeeded == loaded = <<>> \/ loaded = <<{}>>

\* C1: a page-algorithm call without a seeded checkpoint in which the
\* translator failed on some but not all units raises nothing, submits every
\* unit, and returns the translations of the units that did not fail, in
\* document order, joined by the blank-line separator.
C1_PartialFailureReturnsJoined ==
    (PageEnded /\ NotSeeded /\ translator_failed # {} /\ ok_units # <<>>)
        => /\ outcome.kind = "response"
           /\ calls = Range1(Len(pages))
           /\ outcome.text =
                 str_join(BlankLine,
                          TranslationsOf(UnitsNotIn(translator_failed, Len(pages))))

\* C2: a response returned by the page algorithm after one or more units
\* failed lists exactly the failed 1-based indices in failed_pages and
\* carries a warning.
C2_ResponseAnnotatedWithFailures ==
    (PageEnded /\ outcome.kind = "response" /\ failed_pages # <<>>)
        => /\ outcome.failed_pages = failed_pages
           /\ outcome.warnings # <<>>

\* C3: a page-algorithm call on n >= 1 units without a seeded checkpoint in
\* which the translator never succeeds invokes the translator once per unit
\* and then raises TranslationError naming all n indices.
C3_AllFailedRaisesNamingAll ==
    (PageEnded /\ NotSeeded /\ Len(pages) >= 1 /\ ok_units = <<>>)
        => /\ calls = Range1(Len(pages))
           /\ outcome.kind = "TranslationError"
           /\ outcome.message_pages = Range1(Len(pages))

\* the checkpoint the resume check loaded holds the translations of units 1..k
LoadedPrefix ==
    /\ Len(loaded) = 1
    /\ loaded[1] # {}
    /\ LET chunks == Only(loaded[1]).translated_chunks
       IN  /\ Len(chunks) <= Len(pages)
           /\ DictValues(chunks) = TranslationsOf(Range1(Len(chunks)))

\* C4: a page-algorithm call with resume enabled whose loaded checkpoint holds
\* units 1..k returns a response, invokes the translator exactly for units
\* k+1..n, and returns the checkpoint's totals plus those of the new units.
C4_ResumeSkipsAndAccumulates ==
    (PageEnded /\ resume_checked /\ LoadedPrefix)
        => LET st == Only(loaded[1])
               k == Len(st.translated_chunks)
           IN  /\ outcome.kind = "response"
               /\ calls = [j \in 1..(Len(pages) - k) |-> k + j]
               /\ outcome.tokens_used = st.token_usage + SumOver(UnitTokens, ok_units)
               /\ outcome.cost = st.cost + SumOver(UnitCost, ok_units)

\* the four recorded fields of the saving manager equal the loading manager's
FourFieldsEqual(saver, cfg) ==
    /\ saver.source_lang = cfg.source_lang
    /\ saver.target_lang = cfg.target_lang
    /\ saver.model = cfg.model
    /\ saver.algorithm = cfg.algorithm

\* C6: load returns a stored state only if the source_lang, target_lang, model
\* and algorithm recorded at save all equal the current config's; if any one
\* differs it returns None.
C6_LoadOnlyOnMatchingConfig ==
    (pc = "ck_loaded" /\ last_save # {})
        => /\ loaded[1] # {} => FourFieldsEqual(Only(last_save).config, config)
           /\ ~FourFieldsEqual(Only(last_save).config, config) => loaded = <<{}>>

\* a load under a config that differs from the saver's in target_lang only
C6_Witness ==
    /\ pc = "ck_loaded"
    /\ last_save # {}
    /\ disk # {}
    /\ config.target_lang # Only(last_save).config.target_lang
    /\ config.source_lang = Only(last_save).config.source_lang
    /\ config.model = Only(last_save).config.model
    /\ config.algorithm = Only(last_save).config.algorithm
    /\ loaded = <<{}>>

\* a file is absent, or complete and holding the previous or the new document
AbsentOrWhole(file) ==
    \/ file = {}
    \/ /\ Complete(Only(file))
       /\ {Only(file).data} \subseteq (prev \cup saving)

\* C7: while a save is in progress the canonical checkpoint file is at every
\* moment absent, the complete previous checkpoint or the complete new one,
\* and a concurrent load never reads partially written content.
C7_CanonicalFileNeverPartial ==
    /\ fs[CheckpointPath] = {} \/ Complete(Only(fs[CheckpointPath]))
    /\ pc \in {"at_open", "at_write", "at_rename"} => AbsentOrWhole(fs[CheckpointPath])
    /\ observed # <<>> => (observed[1] = {} \/ Complete(Only(observed[1])))

\* a load reads the previous checkpoint while the temporary file is half written
C7_Witness ==
    /\ pc = "at_write"
    /\ fs[temp_path(CheckpointPath)] # {}
    /\ Only(fs[temp_path(CheckpointPath)]).written \in 1..(JsonPieces - 1)
    /\ fs[CheckpointPath] # {}
    /\ observed = <<fs[CheckpointPath]>>
    /\ Only(fs[CheckpointPath]).data # Only(saving)

\* C8: a save that fails with an I/O error ends the call with an error that
\* carries it, in both algorithms; the unit is not recorded as failed.
C8_SaveFailurePropagates ==
    save_failed # {}
        => /\ pc = "done"
           /\ outcome.kind = "TranslationError"
           /\ outcome.cause = "OSError"
           /\ \A k \in 1..Len(failed_pages) : failed_pages[k] \notin save_failed

\* the windows of the current document under the current sizes
CurrentWindows ==
    create_windows(str_join(BlankLine, pages), effective_window_size(config),
                   effective_overlap_size(config))

SeqToSet(q) == {q[k] : k \in 1..Len(q)}

\* C10: every checkpoint the page algorithm saves (in a call whose saves all
\* succeeded) maps each key j to the translation of unit j, lists exactly the
\* translated units as completed, and has no index both completed and failed.
C10_SavedCheckpointConsistent ==
    (last_save # {} /\ config.algorithm = "page" /\ runs > 0 /\ save_failed = {})
        => LET st == Only(last_save).state
               chunks == st.translated_chunks
           IN  /\ \A k \in 1..Len(chunks) :
                     /\ chunks[k].key.n \in 1..Len(pages)
                     /\ chunks[k].value = TranslatorText(pages[chunks[k].key.n])
               /\ st.completed_pages = Only(last_save).ok_units
               /\ SeqToSet(st.completed_pages) \cap SeqToSet(st.failed_pages) = {}

RECURSIVE UniqueSpans(_, _)
\* each window without its first overlap_size characters, concatenated
UniqueSpans(ws, overlap) ==
    IF ws = <<>> THEN <<>>
    ELSE Slice(Head(ws), overlap, Len(Head(ws))) \o UniqueSpans(Tail(ws), overlap)

\* the first window followed by the unique span of every later window
Reassembled(ws, overlap) ==
    IF ws = <<>> THEN <<>> ELSE Head(ws) \o UniqueSpans(Tail(ws), overlap)

\* window_size > 0 and 0 <= overlap_size < window_size
ValidWindowArgs ==
    /\ fn = "create_windows"
    /\ args.window_size > 0
    /\ 0 <= args.overlap_size
    /\ args.overlap_size < args.window_size

\* C11: for every text, window_size > 0 and 0 <= overlap_size < window_size
\* (overlap 0 included), create_windows returns windows whose first window
\* followed by each later window without its first overlap_size characters
\* is exactly the text.  (With overlap_size = 0 the cursor lands on end, the
\* progress test `start >= end` breaks the loop, and only the first window
\* is returned.)
C11_WindowsReassembleText ==
    ValidWindowArgs
        => /\ result.raised = "none"
           /\ Reassembled(result.value, args.overlap_size) = args.text

\* C12: when the translator fails on a window of the sliding-window
\* algorithm the call ends at once with a TranslationError whose cause is the
\* translator's error: the failed window is the last one submitted, no text
\* is returned, and the cleanup after the loop is not reached.
C12_WindowFailureAborts ==
    (config.algorithm = "sliding-window" /\ translator_failed # {})
        => /\ pc = "done"
           /\ outcome.kind = "TranslationError"
           /\ outcome.cause = "TranslatorError"
           /\ outcome.text = <<>>
           /\ translator_failed = {calls[Len(calls)]}
           /\ Len(calls) = Len(ok_units) + 1
           /\ Len(calls) = i + 1

\* the second of three windows fails, with a checkpoint manager configured
C12_Witness ==
    /\ config.algorithm = "sliding-window"
    /\ checkpoint_manager = "CheckpointManager"
    /\ Len(windows) >= 3
    /\ ok_units = <<1>>
    /\ translator_failed = {2}
    /\ pc = "done"
    /\ outcome.cause = "TranslatorError"

\* C13: whatever the document (one without units included), a call ends with
\* a response, a TranslationError or the cancellation; an unknown algorithm
\* name raises TranslationError without a translator call.  (The
\* sliding-window algorithm reads content.pages[0] before its try block.)
C13_OnlyTranslationErrorEscapes ==
    (pc = "done" /\ runs > 0)
        => /\ outcome.kind \in {"response", "TranslationError", "CancelledError"}
           /\ config.algorithm \notin {"page", "sliding-window"}
                 => (outcome.kind = "TranslationError" /\ calls = <<>>)

\* C14: once the task is cancelled during a translator call, the call has
\* ended with the cancellation itself; the unit in flight is the last one
\* submitted and is neither translated nor recorded as failed, and no save
\* or cleanup was made for it.
C14_CancellationPropagates ==
    cancelled
        => /\ pc = "done"
           /\ outcome.kind = "CancelledError"
           /\ outcome.cause = "none"
           /\ Len(calls) = i + 1
           /\ calls[Len(calls)] = i + 1
           /\ \A k \in 1..Len(failed_pages) : failed_pages[k] # i + 1
           /\ \A k \in 1..Len(ok_units) : ok_units[k] # i + 1
           /\ i + 1 \notin translator_failed
           /\ \A u \in save_calls : u <= i

\* the second of three pages is cancelled after a checkpoint of the first
C14_Witness ==
    /\ cancelled
    /\ config.algorithm = "page"
    /\ Len(pages) = 3
    /\ ok_units = <<1>>
    /\ save_calls = {1}
    /\ disk # {}
    /\ i = 1
    /\ outcome.kind = "CancelledError"

\* C15: a job cancelled through cancel_job while RUNNING has status
\* CANCELLED from then on (never FAILED, never COMPLETED); when its task
\* ends, the error is 'Job cancelled by user' and the cancellation has left
\* execute_job.
C15_CancelledWhileRunning ==
    \A j \in 1..Len(jobs) : \A n \in 1..Len(tasks[j]) :
        tasks[j][n].cancel_requested
            => /\ jobs[j].status = "cancelled"
               /\ jobs[j].result = {}
               /\ tasks[j][n].pc \in {"executor", "callback", "cancelled"}
               /\ tasks[j][n].pc = "cancelled"
                     => jobs[j].error = {"Job cancelled by user"}

\* a job was cancelled while its executor ran, and its task has ended with
\* the cancellation, beside a job that has failed
C15_Witness ==
    \E j, k \in 1..Len(jobs) :
        /\ Len(tasks[j]) = 1
        /\ tasks[j][1].cancel_requested
        /\ tasks[j][1].executor = "cancelled"
        /\ tasks[j][1].pc = "cancelled"
        /\ jobs[j].status = "cancelled"
        /\ jobs[j].error = {"Job cancelled by user"}
        /\ jobs[k].status = "failed"

\* a call has ended after the translator translated every unit (page) or
\* window (sliding-window) and every due save succeeded
AllUnitsTranslated ==
    /\ pc = "done"
    /\ ~cancelled
    /\ ok_units # <<>>
    /\ translator_failed = {}
    /\ save_failed = {}
    /\ Len(ok_units) = IF config.algorithm = "page" THEN Len(pages) ELSE Len(windows)

\* C16: a call with a CheckpointManager in which every unit was translated
\* returns a response, and afterwards the checkpoint file does not exist.
\* (CheckpointManager defines no cleanup_old_checkpoints: the call made after
\* the last unit raises AttributeError and the file stays.)
C16_CleanupAfterSuccess ==
    (AllUnitsTranslated /\ checkpoint_manager = "CheckpointManager")
        => /\ outcome.kind = "response"
           /\ disk = {}

\* the units whose translation made the count of translated units a multiple
\* of the checkpoint frequency
EveryFreqSuccess ==
    {ok_units[k] : k \in {n \in 1..Len(ok_units) : n % config.checkpoint_frequency = 0}}

\* C17: the page algorithm (with a manager and a checkpoint directory) calls
\* save exactly after the translations that bring the number of translated
\* units to a multiple of checkpoint_frequency, whether or not earlier units
\* failed.  (The code tests the loop index: `(i + 1) % checkpoint_frequency`.)
C17_SaveEveryFreqSuccesses ==
    (config.algorithm = "page" /\ runs > 0 /\ checkpoint_manager = "CheckpointManager"
        /\ config.checkpoint_dir /\ save_failed = {})
        => save_calls = EveryFreqSuccess

\* C18: load raises nothing and returns None when there is no usable
\* checkpoint, and a call with resume enabled then proceeds from the first
\* unit instead of aborting.  (load is a plain function whose result the
\* algorithms await: awaiting None raises TypeError, and the call aborts.)
C18_LoadFailureDegrades ==
    (pc = "done" /\ resume_checked /\ pages # <<>> /\ loaded = <<{}>>)
        => /\ calls # <<>>
           /\ calls[1] = 1
           /\ outcome.cause # "TypeError"

\* translator calls that have neither returned nor raised
Unresolved == Len(calls) - (Len(ok_units) + Cardinality(translator_failed))

\* C19: within a call the translator is invoked on units in strictly
\* increasing document order (so no unit twice), and at most one invocation
\* is unresolved at any moment: the one being awaited, or the one a
\* cancellation abandoned.
C19_SequentialInOrder ==
    /\ \A j, k \in 1..Len(calls) : j < k => calls[j] < calls[k]
    /\ Unresolved = IF pc \in {"page_await", "sw_await"} \/ cancelled THEN 1 ELSE 0
    /\ pc \in {"page_await", "sw_await"} => calls[Len(calls)] = i + 1

\* three pages were submitted in order although the second one failed
C19_Witness ==
    /\ config.algorithm = "page"
    /\ pc = "done"
    /\ calls = <<1, 2, 3>>
    /\ translator_failed = {2}
    /\ ok_units = <<1, 3>>

\* C20: the managers of two runs on different input documents that share a
\* checkpoint directory get different checkpoint paths and different
\* temporary paths.  (The path is built from input_file.stem alone.)
C20_DistinctFilesDistinctPaths ==
    (fn = "_get_checkpoint_path" /\ args[1] # args[2])
        => /\ result.value[1] # result.value[2]
           /\ temp_path(result.value[1]) # temp_path(result.value[2])

\* C21: the sliding-window algorithm on a document whose first unit is
\* bytes raises TranslationError itself (no wrapped cause) without loading a
\* checkpoint, creating a window or calling the translator.
C21_BinaryFailsFast ==
    (config.algorithm = "sliding-window" /\ pc = "done" /\ runs > 0
        /\ pages # <<>> /\ isinstance_bytes(pages[1]))
        => /\ outcome.kind = "TranslationError"
           /\ outcome.cause = "none"
           /\ loaded = <<>>
           /\ windows = <<>>
           /\ calls = <<>>
           /\ save_calls = {}

\* an image document, with a manager, resume enabled and a checkpoint on disk
C21_Witness ==
    /\ config.algorithm = "sliding-window"
    /\ pc = "done"
    /\ Len(pages) >= 2
    /\ isinstance_bytes(pages[1])
    /\ resume_checked
    /\ disk # {}
    /\ outcome.kind = "TranslationError"
    /\ loaded = <<>>

\* C22: a sliding-window call on a document of one text unit shorter than
\* window_size, with no checkpoint to resume from and a translator that
\* succeeds, creates one window holding the whole text, calls the translator
\* once and returns the translator's text unchanged.  (With a manager the
\* call ends in the cleanup's AttributeError, or in the awaited load.)
C22_SingleWindowPassThrough ==
    (config.algorithm = "sliding-window" /\ pc = "done" /\ runs > 0
        /\ Len(pages) = 1 /\ ~isinstance_bytes(pages[1])
        /\ Len(pages[1]) < effective_window_size(config)
        /\ NotSeeded /\ ~cancelled /\ translator_failed = {} /\ save_failed = {})
        => /\ windows = <<pages[1]>>
           /\ calls = <<1>>
           /\ outcome.kind = "response"
           /\ outcome.text = TranslatorText(pages[1])

\* C23: for valid parameters create_windows returns (so its loop ends), and
\* with stride = window_size - overlap_size >= 1 the k-th window is the text
\* from position (k - 1) * stride, which lies inside the text, for at most
\* window_size characters; there are at most ceil(len(text) / stride) windows.
C23_WindowsAdvanceAndBounded ==
    ValidWindowArgs
        => LET stride == args.window_size - args.overlap_size
               w == result.value
           IN  /\ result.raised = "none"
               /\ \A k \in 1..Len(w) :
                     /\ (k - 1) * stride < Len(args.text)
                     /\ w[k] = Slice(args.text, (k - 1) * stride,
                                     (k - 1) * stride + args.window_size)
                     /\ Len(w[k]) \in 1..args.window_size
               /\ Len(w) * stride <= Len(args.text) + stride - 1

\* two overlapping windows with a stride of three, the last one short
C23_Witness ==
    /\ ValidWindowArgs
    /\ args.overlap_size > 0
    /\ args.window_size - args.overlap_size >= 3
    /\ result.raised = "none"
    /\ Len(result.value) = 2
    /\ Len(result.value[2]) < args.window_size
    /\ args.text = <<"a", "b", "a", "a", "b">>

\* C24: whenever window_size <= 0, overlap_size < 0 or overlap_size >=
\* window_size, create_windows raises ValueError and returns nothing, for
\* every text, the empty one included.  (The empty text returns [] before
\* the arguments are looked at.)
C24_InvalidArgsRaise ==
    (fn = "create_windows"
        /\ (args.window_size <= 0 \/ args.overlap_size < 0
               \/ args.overlap_size >= args.window_size))
        => result = Raises("ValueError")

\* merge_chunks was applied to the two chunks of the worked example
HelloWorldCase ==
    /\ fn = "merge_chunks"
    /\ args.chunks = <<HelloWorld, WorldPeace>>
    /\ args.overlap_size = 5

\* C25: merge_chunks(["hello world", "world peace"], 5) returns
\* "hello world", two newlines, "peace", with nothing else in between.
\* (The chunk loses its first five characters only: a space remains.)
C25_HelloWorldPeace ==
    HelloWorldCase
        => result.value = HelloWorld \o BlankLine \o <<"p", "e", "a", "c", "e">>

\* C25, amended: merge_chunks(["hello world", "world peace"], 5) returns
\* "hello world", two newlines, and " peace" (the second chunk without its
\* first five characters, so with its leading space).
C25_HelloWorldSpacePeace ==
    HelloWorldCase
        => result.value = HelloWorld \o BlankLine \o <<" ", "p", "e", "a", "c", "e">>

\* the worked example was merged into a text of 19 characters
C25_Witness ==
    /\ HelloWorldCase
    /\ result.raised = "none"
    /\ Len(result.value) = 19

\* C26: for overlap_size > 0 each chunk after the first is appended to the
\* accumulated result behind a blank-line separator, without its first k
\* characters for the largest k <= min(len(result), len(chunk), overlap_size)
\* at which the end of the result equals the start of the chunk, and whole
\* when there is no such k.
C26_LargestOverlapTrimmed ==
    (fn = "merge_chunks" /\ args.overlap_size > 0 /\ Len(args.chunks) >= 2)
        => LET n == Len(args.chunks)
               acc == merge_chunks(SubSeq(args.chunks, 1, n - 1), args.overlap_size)
               last == args.chunks[n]
               K == {k \in 1..Min2(Min2(Len(acc), Len(last)), args.overlap_size) :
                       SubSeq(acc, Len(acc) - k + 1, Len(acc)) = SubSeq(last, 1, k)}
           IN  IF K = {}
               THEN result.value = acc \o BlankLine \o last
               ELSE \E k \in K :
                       /\ \A m \in K : m <= k
                       /\ result.value = acc \o BlankLine \o SubSeq(last, k + 1, Len(last))

\* two overlap lengths match and the longer one is removed
C26_Witness ==
    /\ fn = "merge_chunks"
    /\ args.chunks = <<<<"a", "a">>, <<"a", "a", "b">>>>
    /\ args.overlap_size = 2
    /\ result.value = <<"a", "a", NL, NL, "b">>

\* C28: merge_chunks returns the empty text for an empty list and the chunk
\* itself for a list of one chunk, whatever the overlap_size.
C28_EmptyAndSingle ==
    fn = "merge_chunks"
        => /\ args.chunks = <<>> => result = Returned(<<>>)
           /\ Len(args.chunks) = 1 => result = Returned(args.chunks[1])

\* one chunk shorter than the overlap size comes back unchanged
C28_Witness ==
    /\ fn = "merge_chunks"
    /\ Len(args.chunks) = 1
    /\ Len(args.chunks[1]) = 2
    /\ args.overlap_size > Len(args.chunks[1])
    /\ result.value = args.chunks[1]

\* C27: for a text of distinct characters and 0 < overlap_size < window_size,
\* merging the windows of the text with the same overlap_size gives back the
\* text exactly.  (merge_chunks puts a blank-line separator between the
\* windows, and the separator then hides the next overlap.)
C27_WindowMergeRoundTrip ==
    (fn = "windows_then_merge" /\ 0 < args.overlap_size)
        => result.value = args.text

\* the 0-based positions at which sub occurs in text
Occurrences(text, sub) ==
    {p \in 0..(Len(text) - Len(sub)) : SubSeq(text, p + 1, p + Len(sub)) = sub}

\* the trailing n characters of text (all of it when it has fewer)
Trailing(text, n) ==
    IF n >= Len(text) THEN text ELSE SubSeq(text, Len(text) - n + 1, Len(text))

\* extract_seam was applied to two non-empty texts and a positive overlap_size,
\* and the trailing characters of text1 occur in text2
SeamFound ==
    /\ fn = "extract_seam"
    /\ args.text1 # <<>>
    /\ args.text2 # <<>>
    /\ args.overlap_size > 0
    /\ Occurrences(args.text2, Trailing(args.text1, args.overlap_size)) # {}

\* C29: extract_seam returns the substring of text2 of length overlap_size
\* that begins at the first occurrence of the trailing overlap_size
\* characters of text1, and the empty text when they do not occur (or a text
\* is empty, or overlap_size <= 0).  (The slice is cut at the end of text2.)
C29_SeamOfOverlapLength ==
    fn = "extract_seam"
        => IF SeamFound
           THEN \E p \in Occurrences(args.text2, Trailing(args.text1, args.overlap_size)) :
                   /\ \A q \in Occurrences(args.text2,
                                            Trailing(args.text1, args.overlap_size)) : p <= q
                   /\ Len(result.value) = args.overlap_size
                   /\ result.value = SubSeq(args.text2, p + 1, p + args.overlap_size)
           ELSE result.value = <<>>

\* C29, amended: extract_seam returns the characters of text2 from the first
\* occurrence of the trailing overlap_size characters of text1 (all of text1
\* when it is shorter) up to overlap_size characters, fewer when text2 ends
\* before; it is exactly those trailing characters, overlap_size long, when
\* text1 has at least overlap_size characters; and the empty text when they
\* do not occur (or a text is empty, or overlap_size <= 0).
C29_SeamUpToOverlapLength ==
    fn = "extract_seam"
        => IF SeamFound
           THEN \E p \in Occurrences(args.text2, Trailing(args.text1, args.overlap_size)) :
                   /\ \A q \in Occurrences(args.text2,
                                            Trailing(args.text1, args.overlap_size)) : p <= q
                   /\ result.value =
                         SubSeq(args.text2, p + 1,
                                Min2(p + args.overlap_size, Len(args.text2)))
                   /\ Len(args.text1) >= args.overlap_size
                         => /\ Len(result.value) = args.overlap_size
                            /\ result.value = Trailing(args.text1, args.overlap_size)
           ELSE result.value = <<>>

\* text1 is shorter than overlap_size, its match is not at the start of
\* text2, and text2 ends before overlap_size characters are taken
C29_Witness ==
    /\ SeamFound
    /\ Len(args.text1) < args.overlap_size
    /\ 0 \notin Occurrences(args.text2, args.text1)
    /\ result.value # <<>>
    /\ Len(result.value) < args.overlap_size

\* the part of page after the first occurrence of seam
AfterSeam(page, seam) ==
    LET p == CHOOSE p \in Occurrences(page, seam) :
                 \A q \in Occurrences(page, seam) : p <= q
    IN  SubSeq(page, p + Len(seam) + 1, Len(page))

RECURSIVE Repaired(_, _, _)
\* page k of page_list as repaired against the repaired page k - 1
Repaired(page_list, k, seam_overlap) ==
    IF k = 1 THEN page_list[1]
    ELSE LET seam == extract_seam(Repaired(page_list, k - 1, seam_overlap),
                                  page_list[k], seam_overlap)
         IN  IF seam = <<>> \/ Occurrences(page_list[k], seam) = {}
             THEN page_list[k]
             ELSE AfterSeam(page_list[k], seam)

RECURSIVE JoinedFrom(_, _, _)
\* the repaired pages k.. of page_list, a blank line before each
JoinedFrom(page_list, k, seam_overlap) ==
    IF k > Len(page_list) THEN <<>>
    ELSE BlankLine \o Repaired(page_list, k, seam_overlap)
             \o JoinedFrom(page_list, k + 1, seam_overlap)

\* C30: repair_seams keeps the first page, replaces each later page by the
\* part after the first occurrence of its seam with the previous page as
\* repaired (the page itself when there is no seam), and returns the
\* repaired pages, one per input page, joined by blank lines; the empty text
\* for no page and the page itself for one page.
C30_RepairSeams ==
    fn = "repair_seams"
        => result.value =
             IF args.pages = <<>> THEN <<>>
             ELSE args.pages[1] \o JoinedFrom(args.pages, 2, args.page_seam_overlap)

\* three pages, the second one is all seam and is repaired to nothing, so the
\* third page has no seam with it and is kept whole although it starts with
\* the end of the second page as given
C30_Witness ==
    /\ fn = "repair_seams"
    /\ Len(args.pages) = 3
    /\ Repaired(args.pages, 2, args.page_seam_overlap) = <<>>
    /\ extract_seam(args.pages[2], args.pages[3], args.page_seam_overlap) # <<>>
    /\ result.value = args.pages[1] \o BlankLine \o BlankLine \o args.pages[3]

\* the updates made without an error
SuccessfulUpdates == {k \in 1..Len(updates) : updates[k].error = {}}

\* the updates made with an error
FailedUpdates == {k \in 1..Len(updates) : updates[k].error # {}}

RECURSIVE SumOfResponses(_, _)
\* the sum of a field over the responses of the updates in K
SumOfResponses(K, field) ==
    IF K = {} THEN 0
    ELSE LET k == CHOOSE x \in K : TRUE
             r == updates[k].response
         IN  (IF r = {} THEN 0 ELSE Only(r)[field]) + SumOfResponses(K \ {k}, field)

\* C31: an update with an error appends the unit index to failed_pages and
\* leaves completed_pages, token_usage and cost unchanged; an update without
\* an error adds one to completed_pages and the response's tokens and cost.
\* After any updates completed_pages + len(failed_pages) is the number of
\* updates, and token_usage (cost) is the sum over the successful responses.
C31_ProgressCounts ==
    translation_progress # {}
        => LET self == Only(translation_progress)
           IN  /\ self.completed_pages = Cardinality(SuccessfulUpdates)
               /\ Len(self.failed_pages) = Cardinality(FailedUpdates)
               /\ self.completed_pages + Len(self.failed_pages) = Len(updates)
               /\ \E order \in [1..Cardinality(FailedUpdates) -> FailedUpdates] :
                     /\ \A a, b \in DOMAIN order : a < b => order[a] < order[b]
                     /\ self.failed_pages =
                           [a \in DOMAIN order |-> updates[order[a]].page_number]
               /\ self.token_usage = SumOfResponses(SuccessfulUpdates, "tokens_used")
               /\ self.cost = SumOfResponses(SuccessfulUpdates, "cost")

\* updates of all three kinds were made: one with an error (and a response
\* that must not be counted), one with a response, one with neither
C31_Witness ==
    /\ translation_progress # {}
    /\ Len(updates) = 3
    /\ \E k \in 1..3 : updates[k].error # {} /\ updates[k].response # {}
    /\ \E k \in 1..3 : updates[k].error = {} /\ updates[k].response # {}
    /\ \E k \in 1..3 : updates[k].error = {} /\ updates[k].response = {}
    /\ Only(translation_progress).completed_pages = 2

\* the part of a model name after its last "/" (all of it without a "/")
AfterLastSlash(name) ==
    IF \A k \in 1..Len(name) : name[k] # "/" THEN name
    ELSE LET k == CHOOSE k \in 1..Len(name) :
                      /\ name[k] = "/"
                      /\ \A m \in (k + 1)..Len(name) : name[m] # "/"
         IN  SubSeq(name, k + 1, Len(name))

\* C33: calculate_model_cost returns 0 for a model name without
\* model-specific pricing; for a priced model it returns input_tokens / 1000
\* times the input price plus output_tokens / 1000 times the output price;
\* and a provider-prefixed name costs what its base name costs.
C33_ModelCost ==
    fn = "calculate_model_cost"
        => LET base == AfterLastSlash(args.model_name)
               priced == {c \in MODEL_SPECIFIC_COSTS : c.model = base}
           IN  /\ priced = {} => result.value = 0
               /\ \A c \in priced :
                     result.value = args.input_tokens * c.input
                                        + args.output_tokens * c.output
               /\ result.value =
                     calculate_model_cost(base, args.input_tokens, args.output_tokens)

\* a priced model behind two provider prefixes, with different token counts
C33_Witness ==
    /\ fn = "calculate_model_cost"
    /\ args.model_name = <<"azure", "/", "openai", "/", "gpt-5">>
    /\ args.input_tokens = 1000
    /\ args.output_tokens = 50000
    /\ result.value = 1000 * 125 + 50000 * 1000

\* C32: the progress sink handed to the executor is called after each unit:
\* when execute_translation has reported for a document of n units and the
\* job's task has ended, the sink has been called for each of the units 1..n.
C32_SinkCalledForEachUnit ==
    \A job_id \in 1..Len(jobs) : \A n \in 1..Len(tasks[job_id]) :
        (/\ tasks[job_id][n].callable = "execute_translation"
         /\ tasks[job_id][n].sink_calls # <<>>
         /\ tasks[job_id][n].pc = "returned"
         /\ jobs[job_id].status \in {"cancelled", "completed", "failed"})
            => \A unit \in 1..Len(pages) :
                  \E k \in 1..Len(tasks[job_id][n].sink_calls) :
                      tasks[job_id][n].sink_calls[k].current_page = unit

Terminal == {"cancelled", "completed", "failed"}

\* C34: once the status of a job is CANCELLED, COMPLETED or FAILED it never
\* changes again; a job cancelled while PENDING never becomes RUNNING.
C34_TerminalStatusIsFinal ==
    [][\A job_id \in 1..Len(jobs) :
           jobs[job_id].status \in Terminal
               => jobs'[job_id].status = jobs[job_id].status]_vars

\* the tasks of execute_job that hold a slot of the semaphore
Holding ==
    {t \in (1..Len(jobs)) \X (1..MaxTasks) :
        /\ is_task(t[1], t[2])
        /\ tasks[t[1]][t[2]].pc \in {"executor", "callback"}}

\* those of them that are inside the executor, its report included
Executing ==
    {t \in Holding :
        \/ tasks[t[1]][t[2]].pc = "executor"
        \/ tasks[t[1]][t[2]].stage = "reported"}

\* C35: at most max_concurrent jobs are executing their executor at any
\* moment (counted by task, a job started twice counts twice), and every
\* task that has left execute_job has given its slot back: the free slots are
\* max_concurrent less the tasks inside `async with self.semaphore`.
C35_AtMostMaxConcurrent ==
    /\ Cardinality(Executing) <= MaxConcurrent
    /\ Cardinality(Holding) <= MaxConcurrent
    /\ semaphore = MaxConcurrent - Cardinality(Holding)

\* more jobs were started than there are slots: max_concurrent are executing
\* and one waits
C35_Witness ==
    /\ Cardinality(Executing) = MaxConcurrent
    /\ \E job_id \in 1..Len(jobs) : \E n \in 1..Len(tasks[job_id]) :
          tasks[job_id][n].pc = "waiting"
    /\ semaphore = 0

\* C36: every job for which start_job was called eventually reaches a
\* terminal status, its tasks being over, when the event loop runs every task
\* that can run and every executor returns, raises or is cancelled.
C36_StartedJobsEnd ==
    \A job_id \in 1..MaxConcurrent :
        (job_id \in 1..Len(jobs) /\ jobs[job_id].task)
            ~> /\ job_id \in 1..Len(jobs)
               /\ jobs[job_id].status \in Terminal
               /\ \A n \in 1..Len(tasks[job_id]) :
                     tasks[job_id][n].pc \in {"returned", "cancelled"}

\* a job that had to wait for a slot has completed, after a slot was freed
\* by a cancellation and another by a failure
C36_Witness ==
    /\ \E job_id \in 1..Len(jobs) : \E n \in 1..Len(tasks[job_id]) :
          /\ tasks[job_id][n].waited
          /\ tasks[job_id][n].pc = "returned"
          /\ jobs[job_id].status = "completed"
    /\ \E job_id \in 1..Len(jobs) : \E n \in 1..Len(tasks[job_id]) :
          tasks[job_id][n].pc = "cancelled" /\ tasks[job_id][n].executor = "cancelled"
    /\ \E job_id \in 1..Len(jobs) : jobs[job_id].status = "failed"

\* cancel_job can cancel the job: it exists and is PENDING, or RUNNING with a
\* task
Cancellable(job_id) ==
    /\ job_id \in 1..Len(jobs)
    /\ \/ jobs[job_id].status = "pending"
       \/ jobs[job_id].status = "running" /\ jobs[job_id].task

\* C37: cancel_job returns True exactly when the job exists and is PENDING,
\* or RUNNING with a task; for an unknown id or a job already COMPLETED,
\* FAILED or CANCELLED it returns False and changes no job (nor its task).
C37_CancelReturnsAndFrame ==
    [][\A job_id \in 1..(MaxJobs + 1) :
           cancel_job(job_id)
               => /\ result'.value = Cancellable(job_id)
                  /\ ~Cancellable(job_id) => (jobs' = jobs /\ tasks' = tasks)
                  /\ \A other \in 1..Len(jobs) :
                        other # job_id => jobs'[other] = jobs[other]]_vars

\* cancel_job has returned False while every job of the full queue is over,
\* one COMPLETED, one FAILED and one CANCELLED
C37_Witness ==
    /\ fn = "cancel_job"
    /\ result.value = FALSE
    /\ Len(jobs) = MaxJobs
    /\ \A job_id \in 1..Len(jobs) : jobs[job_id].status \in Terminal
    /\ \A status \in Terminal : \E job_id \in 1..Len(jobs) : jobs[job_id].status = status

\* the calls of _notify_progress go on after a callback that raised: the next
\* callback of the list is called with the same progress
CallbacksAfterRaise ==
    \A n \in 1..Len(callback_log) :
        (callback_log[n].raised /\ callback_log[n].callback < callback_log[n].of)
            => /\ n < Len(callback_log)
               /\ callback_log[n + 1].job_id = callback_log[n].job_id
               /\ callback_log[n + 1].callback = callback_log[n].callback + 1
               /\ callback_log[n + 1].progress = callback_log[n].progress

\* the step in which the executor of task n ends sets the job's outcome:
\* COMPLETED with the result, FAILED with the executor's error, or CANCELLED
OutcomeOfExecutor(job_id, n) ==
    (tasks[job_id][n].executor = "none" /\ tasks'[job_id][n].executor # "none")
        => CASE tasks'[job_id][n].executor = "returned" ->
                   /\ jobs'[job_id].status = "completed"
                   /\ jobs'[job_id].result = {"result"}
                   /\ jobs'[job_id].error = jobs[job_id].error
             [] tasks'[job_id][n].executor = "raised" ->
                   /\ jobs'[job_id].status = "failed"
                   /\ jobs'[job_id].error = {"str(e)"}
                   /\ jobs'[job_id].result = jobs[job_id].result
             [] OTHER ->
                   /\ jobs'[job_id].status = "cancelled"
                   /\ jobs'[job_id].error = {"Job cancelled by user"}
                   /\ jobs'[job_id].result = jobs[job_id].result

\* a step of task n inside the notification that follows the outcome, its
\* callbacks returning or raising, leaves every job as it is
OutcomeKept(job_id, n) ==
    (/\ tasks[job_id][n].pc = "callback"
     /\ tasks[job_id][n].stage \in {"completed", "failed", "cancelled"}
     /\ \E ends \in {"returns", "raises"} : callback_returns(job_id, n, ends))
        => jobs' = jobs

\* C38: an exception raised by a registered callback changes nothing: the
\* callbacks after it are still called, and the job ends COMPLETED with its
\* result when the executor returned, FAILED with the executor's error when
\* it raised, CANCELLED when it was cancelled.
C38_CallbackErrorsIgnored ==
    /\ []CallbacksAfterRaise
    /\ [][\A job_id \in 1..Len(jobs) : \A n \in 1..Len(tasks[job_id]) :
              OutcomeOfExecutor(job_id, n) /\ OutcomeKept(job_id, n)]_vars

\* the job is COMPLETED; its first callback raised both when the executor
\* reported and at completion, and the second one was called each time
C38_Witness ==
    /\ Len(jobs) = 1
    /\ jobs[1].status = "completed"
    /\ Len(callback_log) = 4
    /\ callback_log[1].raised /\ callback_log[3].raised
    /\ ~callback_log[2].raised /\ callback_log[2].callback = 2
    /\ ~callback_log[4].raised /\ callback_log[4].callback = 2

\* C39: with a translator that never fails, a page-algorithm call that resumes
\* from the checkpoint an interrupted call has saved returns what one
\* uninterrupted call returns: every unit's translation once, in document
\* order, and the tokens and cost of all units.
C39_ResumeEqualsUninterrupted ==
    (PageEnded /\ resume_checked /\ LoadedPrefix
         /\ translator_failed = {} /\ save_failed = {})
        => /\ outcome.kind = "response"
           /\ outcome.text = str_join(BlankLine, TranslationsOf(Range1(Len(pages))))
           /\ outcome.tokens_used = SumOver(UnitTokens, Range1(Len(pages)))
           /\ outcome.cost = SumOver(UnitCost, Range1(Len(pages)))

\* C40: when overlap_size is not configured, the effective overlap is
\* min(100, window_size // 4) and satisfies 0 <= overlap < window_size for
\* every window_size >= 1 (1000 when window_size is not configured), so
\* create_windows does not reject the defaulted parameters.
C40_DefaultOverlapAccepted ==
    (fn = "effective_sizes" /\ args.overlap_size = {}
         /\ \A w \in args.window_size : w >= 1)
        => LET window_size == result.value.window_size
               overlap == result.value.overlap_size
           IN  /\ window_size = IF args.window_size = {} THEN 1000
                                 ELSE Only(args.window_size)
               /\ overlap = IF window_size \div 4 < 100 THEN window_size \div 4 ELSE 100
               /\ 0 <= overlap
               /\ overlap < window_size
               /\ ~result.value.rejected

\* the smallest window: window_size 1 gives the overlap 0, accepted for a
\* text that is not empty
C40_Witness ==
    /\ fn = "effective_sizes"
    /\ args.overlap_size = {}
    /\ args.window_size = {1}
    /\ args.text # <<>>
    /\ result.value.overlap_size = 0
    /\ ~result.value.rejected

====
